---- MODULE Spec2Model ----
(***************************************************************************)
(* Message-broker-backed dataset subsystem of the Cognitive Framework API: *)
(* broker registry, topic registry, dataset-topic linker and stream reader *)
(* (app/services/dataset_service.py, app/api/dataset.py, app/models).      *)
(***************************************************************************)
EXTENDS Integers, FiniteSets, Sequences, TLC

VARIABLES
    db,       \* committed rows of the metadata store: brokers, topics, datasets, links
    res,      \* outcome of the last completed metadata service call
    calls,    \* the fetch_dataset_topic_data invocations, one record per caller
    consumers, \* the consumer sessions that are open, as the set of their owners
    txns      \* the metadata service calls in progress, one record per worker

vars == <<db, res, calls, consumers, txns>>

----------------------------------------------------------------------------
(* Bounds of the model *)

MaxBrokerId == 2
MaxTopicId == 2
MaxDatasetId == 2
NumCallers == 2
MaxRequested == 2
NumPoolThreads == 2

(* Program constants *)

DATA_SOURCE_TYPE_FILE == 0
DATA_SOURCE_TYPE_TABLE == 1
BROKER_DATA_SOURCE_TYPE == 2
DEFAULT_STREAM_DATA_COUNT == 200
STREAM_TIMEOUT == 10000
\* max_poll_records of a KafkaConsumer that is constructed without it
MAX_POLL_RECORDS == 500
\* no_of_records of a request that does not carry the query parameter
None == 0
HTTP_200_OK == 200
HTTP_404_NOT_FOUND == 404
HTTP_500_INTERNAL_SERVER_ERROR == 500

(* Inputs *)

BrokerNames == {"broker-1", "broker-2"}
\* The value a request carries as its address: a text, as its separator and
\* the numbers between the separators (decimal for ".", hexadecimal for ":"),
\* or a JSON number.
TextAddress(sep, groups) ==
    [form |-> "text", sep |-> sep, groups |-> groups, value |-> 0]

IntAddress(value) == [form |-> "int", sep |-> "", groups |-> <<>>, value |-> value]

\* "127.0.0.1"
BrokerIps == {TextAddress(".", <<127, 0, 0, 1>>)}
BrokerPorts == {9092}

\* What a request can carry as its address: "127.0.0.1", "256.0.0.1", "10.0.0",
\* "0:0:0:0:0:0:0:1", "0:0:0:0:0:0:0:10000", "", and the numbers 2130706433, -1
RequestIps ==
    {TextAddress(".", <<127, 0, 0, 1>>),
     TextAddress(".", <<256, 0, 0, 1>>),
     TextAddress(".", <<10, 0, 0>>),
     TextAddress(":", <<0, 0, 0, 0, 0, 0, 0, 1>>),
     TextAddress(":", <<0, 0, 0, 0, 0, 0, 0, 65536>>),
     TextAddress("", <<>>),
     IntAddress(2130706433),
     IntAddress(-1)}

RequestPorts == {9092, 0, -1}

\* What an update can carry: a name, an address ("0:0:0:0:0:0:0:1"), a port
\* and a schema that no row has at first
UpdateBrokerNames == {"broker-3"}
UpdateIps == {TextAddress(":", <<0, 0, 0, 0, 0, 0, 0, 1>>)}
UpdatePorts == {9093}
UpdateTopicNames == {"metrics"}
UpdateSchemas == {"array"}
TopicNames == {"telemetry", "metrics"}
DatasetNames == {"sensor-ds"}
UpdateDatasetNames == {"sensor-ds-v2"}
FileNames == {"f.csv", "g.csv"}
TableNames == {"t1"}
SelectedFields == {"a", "a,b"}

BrokerIds == 1..MaxBrokerId
TopicIds == 1..MaxTopicId
DatasetIds == 1..MaxDatasetId

----------------------------------------------------------------------------
(* The metadata store *)

EmptyDb ==
    [brokers |-> {}, topics |-> {}, datasets |-> {}, links |-> {},
     files |-> {}, tables |-> {}]

\* Ids a table can hand to a new row: an autoincrement key is larger than the
\* key of every row the table holds (the store's sequence decides which).
FreshIds(rows, maxId) == {i \in 1..(maxId + 1) : \A r \in rows : r.id < i}

\* Ids the table of file rows or of table rows can hand to the row of a new
\* dataset: its sequence advances only after the sequence of dataset_info
\* has, in the same call, so between calls that do not overlap it never runs
\* ahead of it.
DetailIds(rows, dataset_id) ==
    {i \in FreshIds(rows, MaxDatasetId) : i <= dataset_id}

\* The model follows the store while its keys stay within the bounds; a call
\* that stores no row is never held back by them.
WithinBounds(d) ==
    /\ \A b \in d.brokers : b.id <= MaxBrokerId
    /\ \A t \in d.topics : t.id <= MaxTopicId
    /\ \A ds \in d.datasets : ds.id <= MaxDatasetId
    /\ \A l \in d.links : l.id <= MaxDatasetId
    /\ \A f \in d.files : f.id <= MaxDatasetId
    /\ \A t \in d.tables : t.id <= MaxDatasetId

\* UniqueConstraint("broker_name")
unique_broker_per_dataset(brokers) ==
    \A a, b \in brokers : a.broker_name = b.broker_name => a = b

\* UniqueConstraint("user_id", "file_name"); every row carries const.USER_ID
unique_filename_per_user(files) ==
    \A a, b \in files : a.file_name = b.file_name => a = b

\* UniqueConstraint("user_id", "table_name"); every row carries const.USER_ID
unique_table_per_user_id(tables) ==
    \A a, b \in tables : a.table_name = b.table_name => a = b

\* UniqueConstraint("topic_name", "broker_id")
unique_topic_per_broker(topics) ==
    \A a, b \in topics :
        (a.topic_name = b.topic_name /\ a.broker_id = b.broker_id) => a = b

\* Query.one(): the single row, or NoResultFound / MultipleResultsFound
one(rows) ==
    IF rows = {} THEN [found |-> "NoResultFound", row |-> [id |-> 0]]
    ELSE IF Cardinality(rows) > 1
         THEN [found |-> "MultipleResultsFound", row |-> [id |-> 0]]
         ELSE [found |-> "Row", row |-> CHOOSE r \in rows : TRUE]

\* Query.one_or_none(): as one(), but no row is a result (None), not an error
one_or_none(rows) ==
    IF rows = {} THEN [found |-> "None", row |-> [id |-> 0]] ELSE one(rows)

\* A session (unit of work) over the store: what is committed, the rows as
\* the open transaction sees them, and the rows it has marked deleted, in the
\* order they were marked.
Session(committed) ==
    [committed |-> committed, view |-> committed, deleted |-> <<>>]

\* Session.flush() after add(row): the INSERT is sent inside the transaction
flush(s, table, row) ==
    [s EXCEPT !.view = [s.view EXCEPT ![table] = s.view[table] \cup {row}]]

\* Session.delete(row), sent with the next flush; a row the session has
\* already marked is not marked again
delete(s, table, rows) ==
    LET marked == {r.id : r \in rows \cap s.view[table]}
    IN  [s EXCEPT !.view = [s.view EXCEPT ![table] = s.view[table] \ rows],
                  !.deleted = IF marked = {}
                              THEN s.deleted
                              ELSE Append(s.deleted,
                                          [table |-> table, ids |-> marked])]

\* Session.commit(): the transaction's rows become the committed rows
commit(s) == s.view

\* Session.rollback(): the transaction's changes are dropped
rollback(s) == s.committed

\* What a call leaves for its caller: the call and its arguments (a name, up to
\* two ids, and the further fields of the request body where it has some), the
\* kind of its outcome, and the id the outcome carries.
Response(op, name, ref, ref2, kind, id) ==
    [op |-> op, name |-> name, ref |-> ref, ref2 |-> ref2, kind |-> kind,
     id |-> id, args |-> <<>>]

NoCall == Response("none", "", 0, 0, "Ok", 0)

----------------------------------------------------------------------------
(* Validation of a broker request: BrokerBase (pydantic) and
   BrokerDetails.validate_broker_ip *)

NotAnAddress == [ok |-> FALSE, version |-> 0, groups |-> <<>>]

\* ipaddress.IPv4Address(value): four decimal octets, or an integer below 2^32
IPv4Address(value) ==
    IF value.form = "int"
    THEN IF value.value >= 0 /\ value.value \div 65536 < 65536
         THEN [ok |-> TRUE, version |-> 4,
               groups |-> <<(value.value \div 16777216) % 256,
                            (value.value \div 65536) % 256,
                            (value.value \div 256) % 256,
                            value.value % 256>>]
         ELSE NotAnAddress
    ELSE IF /\ value.sep = "." /\ Len(value.groups) = 4
            /\ \A i \in 1..4 : value.groups[i] \in 0..255
         THEN [ok |-> TRUE, version |-> 4, groups |-> value.groups]
         ELSE NotAnAddress

\* ipaddress.IPv6Address(value): eight hextets, or an integer below 2^128
IPv6Address(value) ==
    IF value.form = "int"
    THEN IF value.value >= 0
         THEN [ok |-> TRUE, version |-> 6,
               groups |-> <<0, 0, 0, 0, 0, 0,
                            value.value \div 65536, value.value % 65536>>]
         ELSE NotAnAddress
    ELSE IF /\ value.sep = ":" /\ Len(value.groups) = 8
            /\ \A i \in 1..8 : value.groups[i] \in 0..65535
         THEN [ok |-> TRUE, version |-> 6, groups |-> value.groups]
         ELSE NotAnAddress

\* pydantic IPvAnyAddress.validate: IPv4Address(value), else IPv6Address(value),
\* else the error "value is not a valid IPv4 or IPv6 address"
IPvAnyAddress(value) ==
    IF IPv4Address(value).ok THEN IPv4Address(value) ELSE IPv6Address(value)

\* BrokerBase: name: str, ip: IPvAnyAddress, port: int = Field(gt=0)
BrokerBase(name, ip, port) ==
    [valid |-> IPvAnyAddress(ip).ok /\ port > 0,
     name |-> name, ip |-> IPvAnyAddress(ip), port |-> port]

HexDigits == <<"0", "1", "2", "3", "4", "5", "6", "7",
               "8", "9", "a", "b", "c", "d", "e", "f">>

RECURSIVE Hex(_)
Hex(n) == IF n < 16 THEN HexDigits[n + 1]
          ELSE Hex(n \div 16) \o HexDigits[(n % 16) + 1]

RECURSIVE Join(_, _)
Join(words, sep) ==
    IF words = <<>> THEN ""
    ELSE IF Len(words) = 1 THEN Head(words)
    ELSE Head(words) \o sep \o Join(Tail(words), sep)

RECURSIVE ZeroRun(_, _)
ZeroRun(groups, i) ==
    IF i > Len(groups) \/ groups[i] # 0 THEN 0 ELSE 1 + ZeroRun(groups, i + 1)

\* str(address): dotted decimal, or the hextets with the first longest run of
\* two or more zero hextets written "::"
str_address(address) ==
    IF address.version = 4
    THEN Join([i \in 1..4 |-> ToString(address.groups[i])], ".")
    ELSE LET h == address.groups
             best == CHOOSE i \in 1..8 :
                        /\ \A j \in 1..8 : ZeroRun(h, j) <= ZeroRun(h, i)
                        /\ \A j \in 1..(i - 1) : ZeroRun(h, j) < ZeroRun(h, i)
             run == ZeroRun(h, best)
             hex == [i \in 1..8 |-> Hex(h[i])]
         IN  IF run < 2 THEN Join(hex, ":")
             ELSE Join(SubSeq(hex, 1, best - 1), ":") \o "::"
                  \o Join(SubSeq(hex, best + run, 8), ":")

\* BrokerDetails.validate_broker_ip: str(ipaddress.ip_address(broker_ip))
validate_broker_ip(broker_ip) == str_address(broker_ip)

----------------------------------------------------------------------------
(* Broker registry *)

\* register_broker looking the existing broker up without the filter on the name
register_broker_unfiltered(d, name, ip, port, id) ==
    LET broker_details == [id |-> id, broker_name |-> name,
                           broker_ip |-> ip, broker_port |-> port]
        s == flush(Session(d), "brokers", broker_details)
    IN  IF unique_broker_per_dataset(s.view.brokers)
        THEN [db |-> commit(s),
              res |-> Response("register_broker", name, 0, 0, "Ok", id)]
        ELSE LET existing_broker == one(rollback(s).brokers)
             IN  IF existing_broker.found = "Row"
                 THEN [db |-> rollback(s),
                       res |-> Response("register_broker", name, 0, 0, "Conflict",
                                        existing_broker.row.id)]
                 ELSE [db |-> rollback(s),
                       res |-> Response("register_broker", name, 0, 0,
                                        existing_broker.found, 0)]

\* DatasetService.register_broker
register_broker(d, name, ip, port, id) ==
    LET broker_details == [id |-> id, broker_name |-> name,
                           broker_ip |-> ip, broker_port |-> port]
        s == flush(Session(d), "brokers", broker_details)
    IN  IF unique_broker_per_dataset(s.view.brokers)
        THEN [db |-> commit(s), res |-> Response("register_broker", name, 0, 0, "Ok", id)]
        ELSE \* DBIntegrityError: rollback, then look the existing broker up
             LET existing_broker ==
                     one({b \in rollback(s).brokers : b.broker_name = name})
             IN  IF existing_broker.found = "Row"
                 THEN [db |-> rollback(s),
                       res |-> Response("register_broker", name, 0, 0, "Conflict",
                                        existing_broker.row.id)]
                 ELSE [db |-> rollback(s),
                       res |-> Response("register_broker", name, 0, 0,
                                        existing_broker.found, 0)]

\* broker_deregister without the cascade of BrokerDetails.broker_topic
broker_deregister_keep_topics(d, broker_id) ==
    LET broker_details == one({b \in d.brokers : b.id = broker_id})
    IN  IF broker_details.found # "Row"
        THEN [db |-> d, res |-> Response("broker_deregister", "", broker_id, 0, "NotFound", 0)]
        ELSE [db |-> commit(delete(Session(d), "brokers", {broker_details.row})),
              res |-> Response("broker_deregister", "", broker_id, 0, "Ok", 0)]

\* DatasetService.broker_deregister: the delete cascades over the broker's
\* topics (BrokerDetails.broker_topic) and over their links
\* (TopicDetails.dataset_topic_info)
broker_deregister(d, broker_id) ==
    LET broker_details == one({b \in d.brokers : b.id = broker_id})
    IN  IF broker_details.found # "Row"
        THEN [db |-> d, res |-> Response("broker_deregister", "", broker_id, 0, "NotFound", 0)]
        ELSE LET gone == {t \in d.topics : t.broker_id = broker_id}
                 s1 == delete(Session(d), "brokers", {broker_details.row})
                 s2 == delete(s1, "topics", gone)
                 s3 == delete(s2, "links",
                              {l \in d.links : \E t \in gone : l.topic_id = t.id})
             IN  [db |-> commit(s3),
                  res |-> Response("broker_deregister", "", broker_id, 0, "Ok", 0)]

----------------------------------------------------------------------------
(* Topic registry *)

\* register_topic storing the topic without looking its broker up
register_topic_unresolved_broker(d, broker_id, name, schema, id) ==
    LET topic_details == [id |-> id, topic_name |-> name,
                          topic_schema |-> schema, broker_id |-> broker_id]
        s == flush(Session(d), "topics", topic_details)
    IN  IF unique_topic_per_broker(s.view.topics)
        THEN [db |-> commit(s), res |-> Response("register_topic", name, broker_id, 0, "Ok", id)]
        ELSE [db |-> rollback(s),
              res |-> Response("register_topic", name, broker_id, 0, "Conflict", 0)]

\* DatasetService.register_topic
register_topic(d, broker_id, name, schema, id) ==
    LET broker_info == one_or_none({b \in d.brokers : b.id = broker_id})
        topic_details == [id |-> id, topic_name |-> name,
                          topic_schema |-> schema, broker_id |-> broker_id]
        s == flush(Session(d), "topics", topic_details)
    IN  IF broker_info.found # "Row"
        THEN [db |-> d, res |-> Response("register_topic", name, broker_id, 0, "NotFound", 0)]
        ELSE IF unique_topic_per_broker(s.view.topics)
        THEN [db |-> commit(s), res |-> Response("register_topic", name, broker_id, 0, "Ok", id)]
        ELSE \* DBIntegrityError: rollback, then look the existing topic up
             LET existing_topic ==
                     one({t \in rollback(s).topics : t.topic_name = name})
             IN  IF existing_topic.found = "Row"
                 THEN [db |-> rollback(s),
                       res |-> Response("register_topic", name, broker_id, 0,
                                        "Conflict", existing_topic.row.id)]
                 ELSE [db |-> rollback(s),
                       res |-> Response("register_topic", name, broker_id, 0,
                                        existing_topic.found, 0)]

\* topic_deregister without the cascade of TopicDetails.dataset_topic_info
topic_deregister_keep_links(d, topic_id) ==
    LET topic_details == one({t \in d.topics : t.id = topic_id})
    IN  IF topic_details.found # "Row"
        THEN [db |-> d, res |-> Response("topic_deregister", "", topic_id, 0, "NotFound", 0)]
        ELSE [db |-> commit(delete(Session(d), "topics", {topic_details.row})),
              res |-> Response("topic_deregister", "", topic_id, 0, "Ok", 0)]

\* DatasetService.topic_deregister: the delete cascades over the topic's links
\* (TopicDetails.dataset_topic_info)
topic_deregister(d, topic_id) ==
    LET topic_details == one({t \in d.topics : t.id = topic_id})
    IN  IF topic_details.found # "Row"
        THEN [db |-> d, res |-> Response("topic_deregister", "", topic_id, 0, "NotFound", 0)]
        ELSE LET s1 == delete(Session(d), "topics", {topic_details.row})
                 s2 == delete(s1, "links",
                              {l \in d.links : l.topic_id = topic_id})
             IN  [db |-> commit(s2),
                  res |-> Response("topic_deregister", "", topic_id, 0, "Ok", 0)]

----------------------------------------------------------------------------
(* Listing brokers and topics *)

\* fetch_broker_details answering an empty registry with an empty list
fetch_broker_details_empty_list(d) ==
    [raised |-> "", result |-> d.brokers]

\* DatasetService.fetch_broker_details: query.all(), NoResultFound for no row
fetch_broker_details(d) ==
    IF d.brokers = {} THEN [raised |-> "NoResultFound", result |-> {}]
    ELSE [raised |-> "", result |-> d.brokers]

\* DatasetService.fetch_topic_details: query.all(), NoResultFound for no row
fetch_topic_details(d) ==
    IF d.topics = {} THEN [raised |-> "NoResultFound", result |-> {}]
    ELSE [raised |-> "", result |-> d.topics]

----------------------------------------------------------------------------
(* Updates of brokers and topics *)

\* setattr(record, key, value) for the fields of update_data that are not None;
\* update_data is the record of the fields the request supplied, and broker_ip
\* passes through BrokerDetails.validate_broker_ip
setattrs(record, update_data) ==
    [key \in DOMAIN record |->
        IF key \in DOMAIN update_data
        THEN IF key = "broker_ip" THEN validate_broker_ip(update_data[key])
             ELSE update_data[key]
        ELSE record[key]]

\* _update_record writing the supplied fields to every row of the table
update_record_every_row(d, op, table, record_id, update_data) ==
    LET record == one({r \in d[table] : r.id = record_id})
        s == [Session(d) EXCEPT
                !.view[table] = {setattrs(r, update_data) : r \in d[table]}]
    IN  IF record.found # "Row"
        THEN [db |-> d, res |-> Response(op, "", record_id, 0, "NotFound", 0)]
        ELSE IF /\ unique_broker_per_dataset(s.view.brokers)
                /\ unique_topic_per_broker(s.view.topics)
        THEN [db |-> commit(s), res |-> Response(op, "", record_id, 0, "Ok", record_id)]
        ELSE [db |-> rollback(s), res |-> Response(op, "", record_id, 0, "Conflict", 0)]

\* _update_record over tables that carry no unique constraint
update_record_unconstrained(d, op, table, record_id, update_data) ==
    LET record == one({r \in d[table] : r.id = record_id})
        s == [Session(d) EXCEPT
                !.view[table] = (d[table] \ {record.row})
                                    \cup {setattrs(record.row, update_data)}]
    IN  IF record.found # "Row"
        THEN [db |-> d, res |-> Response(op, "", record_id, 0, "NotFound", 0)]
        ELSE [db |-> commit(s), res |-> Response(op, "", record_id, 0, "Ok", record_id)]

\* DatasetService._update_record
update_record(d, op, table, record_id, update_data) ==
    LET record == one({r \in d[table] : r.id = record_id})
        s == [Session(d) EXCEPT
                !.view[table] = (d[table] \ {record.row})
                                    \cup {setattrs(record.row, update_data)}]
    IN  IF record.found # "Row"
        THEN [db |-> d, res |-> Response(op, "", record_id, 0, "NotFound", 0)]
        ELSE IF /\ unique_broker_per_dataset(s.view.brokers)
                /\ unique_topic_per_broker(s.view.topics)
        THEN [db |-> commit(s), res |-> Response(op, "", record_id, 0, "Ok", record_id)]
        ELSE \* DBIntegrityError at the commit: the UPDATE did not happen
             [db |-> rollback(s), res |-> Response(op, "", record_id, 0, "Conflict", 0)]

\* DatasetService.update_broker
update_broker(d, broker_id, broker_data) ==
    update_record(d, "update_broker", "brokers", broker_id, broker_data)

\* DatasetService.update_topic
update_topic(d, topic_id, topic_data) ==
    update_record(d, "update_topic", "topics", topic_id, topic_data)

----------------------------------------------------------------------------
(* Datasets that are not broker-sourced *)

DatasetRow(id, name, source) ==
    [id |-> id, dataset_name |-> name, data_source_type |-> source]

\* DatasetService.add_dataset_details_to_db as upload_file calls it: the
\* DatasetInfo row is flushed, the DatasetFileDetails row added, and both are
\* committed; the commit fails on unique_filename_per_user, which upload_file
\* raises as IntegrityError (409), and nothing is stored
add_dataset_details_to_db(d, name, filename, id, file_id) ==
    LET op == "add_dataset_details_to_db"
        s0 == Session(d)
        datasets == DatasetRow(id, name, DATA_SOURCE_TYPE_FILE)
        s1 == flush(s0, "datasets", datasets)
        dataset_file == [id |-> file_id, dataset_id |-> datasets.id,
                         file_name |-> filename]
        s2 == flush(s1, "files", dataset_file)
    IN  IF ~unique_filename_per_user(s2.view.files)
        THEN [db |-> rollback(s2),
              res |-> [Response(op, name, 0, 0, "Conflict", 0)
                          EXCEPT !.args = <<filename>>]]
        ELSE [db |-> commit(s2),
              res |-> [Response(op, name, 0, 0, "Ok", id)
                          EXCEPT !.args = <<filename>>]]

\* DatasetService.register_dataset_table: the DatasetInfo row is flushed, the
\* DatasetTableDetails row added, and both are committed; the commit fails on
\* unique_table_per_user_id, which is raised as IntegrityError (409) after a
\* rollback
register_dataset_table(d, name, table_name, selected_fields, id, table_id) ==
    LET op == "register_dataset_table"
        s0 == Session(d)
        dataset_info == DatasetRow(id, name, DATA_SOURCE_TYPE_TABLE)
        s1 == flush(s0, "datasets", dataset_info)
        dataset_table == [id |-> table_id, dataset_id |-> dataset_info.id,
                          table_name |-> table_name,
                          fields_selected_list |-> selected_fields]
        s2 == flush(s1, "tables", dataset_table)
    IN  IF ~unique_table_per_user_id(s2.view.tables)
        THEN [db |-> rollback(s2),
              res |-> [Response(op, name, 0, 0, "Conflict", 0)
                          EXCEPT !.args = <<table_name, selected_fields>>]]
        ELSE [db |-> commit(s2),
              res |-> [Response(op, name, 0, 0, "Ok", id)
                          EXCEPT !.args = <<table_name, selected_fields>>]]

\* DatasetService.update_file: the file row of the dataset gets the new file
\* name, the dataset row the new name; committed when the file was stored
update_file(d, dataset_id, name, filename, fail) ==
    LET op == "update_file"
        s0 == Session(d)
        dataset_upload == one({f \in d.files : f.dataset_id = dataset_id})
        dataset_info == one({ds \in d.datasets : ds.id = dataset_id})
        s1 == flush(delete(s0, "files", {dataset_upload.row}), "files",
                    [dataset_upload.row EXCEPT !.file_name = filename])
        s2 == flush(delete(s1, "datasets", {dataset_info.row}), "datasets",
                    [dataset_info.row EXCEPT !.dataset_name = name])
        answer(kind) == [Response(op, name, dataset_id, 0, kind, 0)
                            EXCEPT !.args = <<filename>>]
    IN  IF dataset_upload.found = "NoResultFound"
        THEN [db |-> d, res |-> answer("NotFound")]
        ELSE IF dataset_upload.found # "Row"
        THEN [db |-> d, res |-> answer(dataset_upload.found)]
        ELSE IF dataset_info.found = "NoResultFound"
        THEN [db |-> d, res |-> answer("NotFound")]
        ELSE IF dataset_info.found # "Row"
        THEN [db |-> d, res |-> answer(dataset_info.found)]
        ELSE IF fail = "storage"
        THEN [db |-> rollback(s2), res |-> answer("FileNotFoundError")]
        ELSE IF ~unique_filename_per_user(s2.view.files)
        THEN [db |-> rollback(s2), res |-> answer("DatabaseError")]
        ELSE [db |-> commit(s2), res |-> answer("Ok")]

----------------------------------------------------------------------------
(* Dataset-topic linker *)

\* Where a store operation of a transaction can fail (connection loss, a
\* constraint of the store): nowhere, at the flush, or at the commit.
Failures == {"none", "flush", "commit"}

\* DatasetService.dataset_message_response: the dataset, broker and topic
\* fields of a response, each copied from the row it is given
dataset_message_response(dataset_detail, broker_detail, topic_detail) ==
    [dataset |-> [id |-> dataset_detail.id,
                  dataset_name |-> dataset_detail.dataset_name,
                  data_source_type |-> dataset_detail.data_source_type],
     broker_details |-> [id |-> broker_detail.id,
                         broker_name |-> broker_detail.broker_name,
                         broker_ip |-> broker_detail.broker_ip,
                         broker_port |-> broker_detail.broker_port],
     topic_details |-> [id |-> topic_detail.id,
                        topic_name |-> topic_detail.topic_name,
                        topic_schema |-> topic_detail.topic_schema,
                        broker_id |-> topic_detail.broker_id]]

\* register_dataset_message_details committing the dataset row where the code
\* flushes it, so that the link row is written in a transaction of its own
register_dataset_message_details_two_commits(d, name, broker_id, topic_id, id, link_id, fail) ==
    LET op == "register_dataset_message_details"
        s0 == Session(d)
        broker_info == one_or_none({b \in d.brokers : b.id = broker_id})
        topic_info == one_or_none({t \in d.topics : t.id = topic_id})
        dataset_info == DatasetRow(id, name, BROKER_DATA_SOURCE_TYPE)
        s1 == Session(commit(flush(s0, "datasets", dataset_info)))
        dataset_topic_info == [id |-> link_id, topic_id |-> topic_id,
                               dataset_id |-> dataset_info.id]
        s2 == flush(s1, "links", dataset_topic_info)
    IN  IF broker_info.found # "Row"
        THEN [db |-> rollback(s0),
              res |-> Response(op, name, broker_id, topic_id, "NotFoundBroker", 0)]
        ELSE IF topic_info.found # "Row"
        THEN [db |-> rollback(s0),
              res |-> Response(op, name, broker_id, topic_id, "NotFoundTopic", 0)]
        ELSE IF fail = "flush"
        THEN [db |-> rollback(s0),
              res |-> Response(op, name, broker_id, topic_id, "DatabaseError", 0)]
        ELSE IF fail = "commit"
        THEN [db |-> rollback(s2),
              res |-> Response(op, name, broker_id, topic_id, "DatabaseError", 0)]
        ELSE [db |-> commit(s2),
              res |-> Response(op, name, broker_id, topic_id, "Ok", id)]

\* register_dataset_message_details resolving the topic before the broker
register_dataset_message_details_topic_first(d, name, broker_id, topic_id, id, link_id, fail) ==
    LET op == "register_dataset_message_details"
        s0 == Session(d)
        broker_info == one_or_none({b \in d.brokers : b.id = broker_id})
        topic_info == one_or_none({t \in d.topics : t.id = topic_id})
        dataset_info == DatasetRow(id, name, BROKER_DATA_SOURCE_TYPE)
        s1 == flush(s0, "datasets", dataset_info)
        dataset_topic_info == [id |-> link_id, topic_id |-> topic_id,
                               dataset_id |-> dataset_info.id]
        s2 == flush(s1, "links", dataset_topic_info)
    IN  IF topic_info.found # "Row"
        THEN [db |-> rollback(s0),
              res |-> Response(op, name, broker_id, topic_id, "NotFoundTopic", 0)]
        ELSE IF broker_info.found # "Row"
        THEN [db |-> rollback(s0),
              res |-> Response(op, name, broker_id, topic_id, "NotFoundBroker", 0)]
        ELSE IF fail = "flush"
        THEN [db |-> rollback(s1),
              res |-> Response(op, name, broker_id, topic_id, "DatabaseError", 0)]
        ELSE IF fail = "commit"
        THEN [db |-> rollback(s2),
              res |-> Response(op, name, broker_id, topic_id, "DatabaseError", 0)]
        ELSE [db |-> commit(s2),
              res |-> Response(op, name, broker_id, topic_id, "Ok", id)]

\* DatasetService.register_dataset_message_details
register_dataset_message_details(d, name, broker_id, topic_id, id, link_id, fail) ==
    LET op == "register_dataset_message_details"
        s0 == Session(d)
        broker_info == one_or_none({b \in d.brokers : b.id = broker_id})
        topic_info == one_or_none({t \in d.topics : t.id = topic_id})
        dataset_info == DatasetRow(id, name, BROKER_DATA_SOURCE_TYPE)
        s1 == flush(s0, "datasets", dataset_info)
        dataset_topic_info == [id |-> link_id, topic_id |-> topic_id,
                               dataset_id |-> dataset_info.id]
        s2 == flush(s1, "links", dataset_topic_info)
    IN  IF broker_info.found # "Row"
        THEN [db |-> rollback(s0), res |-> Response(op, name, broker_id, topic_id, "NotFoundBroker", 0)]
        ELSE IF topic_info.found # "Row"
        THEN [db |-> rollback(s0), res |-> Response(op, name, broker_id, topic_id, "NotFoundTopic", 0)]
        ELSE IF fail = "flush"
        THEN [db |-> rollback(s1),
              res |-> Response(op, name, broker_id, topic_id, "DatabaseError", 0)]
        ELSE IF fail = "commit"
        THEN [db |-> rollback(s2),
              res |-> Response(op, name, broker_id, topic_id, "DatabaseError", 0)]
        ELSE [db |-> commit(s2),
              res |-> [Response(op, name, broker_id, topic_id, "Ok", id)
                          EXCEPT !.args = <<dataset_message_response(
                                               dataset_info, broker_info.row,
                                               topic_info.row)>>]]

\* The join without its first ON clause, DatasetInfo.id == DatasetTopicDetails.dataset_id
message_details_join_any_link(d, dataset_id) ==
    {<<ds, l, t, b>> \in d.datasets \X d.links \X d.topics \X d.brokers :
        /\ l.topic_id = t.id
        /\ t.broker_id = b.id
        /\ ds.id = dataset_id}

\* The join of fetch_dataset_message_details:
\* DatasetInfo -> DatasetTopicDetails -> TopicDetails -> BrokerDetails
message_details_join(d, dataset_id) ==
    {<<ds, l, t, b>> \in d.datasets \X d.links \X d.topics \X d.brokers :
        /\ ds.id = l.dataset_id
        /\ l.topic_id = t.id
        /\ t.broker_id = b.id
        /\ ds.id = dataset_id}

\* DatasetService.fetch_dataset_message_details
fetch_dataset_message_details(d, dataset_id) ==
    LET rows == message_details_join(d, dataset_id)
    IN  IF rows = {} THEN Response("fetch_dataset_message_details", "", dataset_id, 0, "NotFound", 0)
        ELSE IF Cardinality(rows) > 1
        THEN Response("fetch_dataset_message_details", "", dataset_id, 0, "MultipleResultsFound", 0)
        ELSE LET response == CHOOSE row \in rows : TRUE
             IN  [Response("fetch_dataset_message_details", "", dataset_id, 0, "Ok", 0)
                     EXCEPT !.args = <<dataset_message_response(
                                          response[1], response[4], response[3])>>]

\* dataset_message_deregister deleting the dataset before its link
dataset_message_deregister_dataset_first(d, dataset_id, fail) ==
    LET op == "dataset_message_deregister"
        s0 == Session(d)
        dataset_details ==
            one({ds \in d.datasets :
                    /\ ds.id = dataset_id
                    /\ ds.data_source_type = BROKER_DATA_SOURCE_TYPE})
        topic_details ==
            one_or_none({l \in d.links : l.dataset_id = dataset_details.row.id})
        s1 == delete(s0, "datasets", {dataset_details.row})
        s2 == IF topic_details.found = "Row"
              THEN delete(s1, "links", {topic_details.row})
              ELSE s1
    IN  IF dataset_details.found # "Row"
        THEN [db |-> d, res |-> Response(op, "", dataset_id, 0, "NotFound", 0),
              deleted |-> <<>>]
        ELSE IF topic_details.found = "MultipleResultsFound"
        THEN [db |-> rollback(s0),
              res |-> Response(op, "", dataset_id, 0, "MultipleResultsFound", 0),
              deleted |-> <<>>]
        ELSE IF fail # "none"
        THEN [db |-> rollback(s2),
              res |-> Response(op, "", dataset_id, 0, "DatabaseError", 0),
              deleted |-> <<>>]
        ELSE [db |-> commit(s2), res |-> Response(op, "", dataset_id, 0, "Ok", 0),
              deleted |-> s2.deleted]

\* dataset_message_deregister looking the dataset up by id alone
dataset_message_deregister_any_source(d, dataset_id, fail) ==
    LET op == "dataset_message_deregister"
        s0 == Session(d)
        dataset_details == one({ds \in d.datasets : ds.id = dataset_id})
        topic_details ==
            one_or_none({l \in d.links : l.dataset_id = dataset_details.row.id})
        s1 == IF topic_details.found = "Row"
              THEN delete(s0, "links", {topic_details.row})
              ELSE s0
        s2 == delete(delete(s1, "datasets", {dataset_details.row}),
                     "links", {l \in d.links : l.dataset_id = dataset_id})
    IN  IF dataset_details.found # "Row"
        THEN [db |-> d, res |-> Response(op, "", dataset_id, 0, "NotFound", 0),
              deleted |-> <<>>]
        ELSE IF topic_details.found = "MultipleResultsFound"
        THEN [db |-> rollback(s0),
              res |-> Response(op, "", dataset_id, 0, "MultipleResultsFound", 0),
              deleted |-> <<>>]
        ELSE IF fail # "none"
        THEN [db |-> rollback(s2),
              res |-> Response(op, "", dataset_id, 0, "DatabaseError", 0),
              deleted |-> <<>>]
        ELSE [db |-> commit(s2), res |-> Response(op, "", dataset_id, 0, "Ok", 0),
              deleted |-> s2.deleted]

\* DatasetService.dataset_message_deregister: the link, when there is one, is
\* marked deleted first, then the dataset; one commit publishes both. The
\* result carries, next to the store and the answer, the rows the committed
\* session had marked deleted, in order.
dataset_message_deregister(d, dataset_id, fail) ==
    LET op == "dataset_message_deregister"
        s0 == Session(d)
        dataset_details ==
            one({ds \in d.datasets :
                    /\ ds.id = dataset_id
                    /\ ds.data_source_type = BROKER_DATA_SOURCE_TYPE})
        topic_details ==
            one_or_none({l \in d.links : l.dataset_id = dataset_details.row.id})
        s1 == IF topic_details.found = "Row"
              THEN delete(s0, "links", {topic_details.row})
              ELSE s0
        \* deleting the dataset cascades over DatasetInfo.dataset_topic_mapping
        s2 == delete(delete(s1, "datasets", {dataset_details.row}),
                     "links", {l \in d.links : l.dataset_id = dataset_id})
    IN  IF dataset_details.found # "Row"
        THEN [db |-> d, res |-> Response(op, "", dataset_id, 0, "NotFound", 0),
              deleted |-> <<>>]
        ELSE IF topic_details.found = "MultipleResultsFound"
        THEN [db |-> rollback(s0),
              res |-> Response(op, "", dataset_id, 0, "MultipleResultsFound", 0),
              deleted |-> <<>>]
        ELSE IF fail # "none"
        THEN [db |-> rollback(s2),
              res |-> Response(op, "", dataset_id, 0, "DatabaseError", 0),
              deleted |-> <<>>]
        ELSE [db |-> commit(s2), res |-> Response(op, "", dataset_id, 0, "Ok", 0),
              deleted |-> s2.deleted]

\* deregister_dataset without the cascade of DatasetInfo.dataset_topic_mapping
deregister_dataset_keep_links(d, dataset_id, fail) ==
    LET op == "deregister_dataset"
        s0 == Session(d)
        mdi == one({ds \in d.datasets : ds.id = dataset_id})
        dataset_upload == one({f \in d.files : f.id = dataset_id})
        s1 == delete(delete(delete(s0, "datasets", {mdi.row}),
                            "files", {f \in d.files : f.dataset_id = dataset_id}),
                     "tables", {t \in d.tables : t.dataset_id = dataset_id})
    IN  IF mdi.found # "Row"
        THEN [db |-> d, res |-> Response(op, "", dataset_id, 0, "NotFound", 0)]
        ELSE IF mdi.row.data_source_type = DATA_SOURCE_TYPE_FILE
                /\ dataset_upload.found # "Row"
        THEN [db |-> d, res |-> Response(op, "", dataset_id, 0, "NotFound", 0)]
        ELSE IF mdi.row.data_source_type = DATA_SOURCE_TYPE_FILE /\ fail = "storage"
        THEN [db |-> rollback(s0), res |-> Response(op, "", dataset_id, 0, "StorageError", 0)]
        ELSE IF fail = "commit"
        THEN [db |-> rollback(s1), res |-> Response(op, "", dataset_id, 0, "DatabaseError", 0)]
        ELSE [db |-> commit(s1), res |-> Response(op, "", dataset_id, 0, "Ok", 0)]

\* DatasetService.deregister_dataset: looks the dataset up by id alone; for a
\* file dataset it looks up the DatasetFileDetails row whose own id is
\* dataset_id (NoResultFound when there is none) and removes that row's file
\* from the object store; then it deletes the dataset row, which cascades over
\* the dataset's file, table and link rows
deregister_dataset(d, dataset_id, fail) ==
    LET op == "deregister_dataset"
        s0 == Session(d)
        mdi == one({ds \in d.datasets : ds.id = dataset_id})
        dataset_upload == one({f \in d.files : f.id = dataset_id})
        s1 == delete(delete(delete(delete(s0, "datasets", {mdi.row}),
                                   "files", {f \in d.files : f.dataset_id = dataset_id}),
                            "tables", {t \in d.tables : t.dataset_id = dataset_id}),
                     "links", {l \in d.links : l.dataset_id = dataset_id})
    IN  IF mdi.found # "Row"
        THEN [db |-> d, res |-> Response(op, "", dataset_id, 0, "NotFound", 0)]
        ELSE IF mdi.row.data_source_type = DATA_SOURCE_TYPE_FILE
                /\ dataset_upload.found # "Row"
        THEN [db |-> d, res |-> Response(op, "", dataset_id, 0, "NotFound", 0)]
        ELSE IF mdi.row.data_source_type = DATA_SOURCE_TYPE_FILE /\ fail = "storage"
        THEN [db |-> rollback(s0), res |-> Response(op, "", dataset_id, 0, "StorageError", 0)]
        ELSE IF fail = "commit"
        THEN [db |-> rollback(s1), res |-> Response(op, "", dataset_id, 0, "DatabaseError", 0)]
        ELSE [db |-> commit(s1), res |-> Response(op, "", dataset_id, 0, "Ok", 0)]

----------------------------------------------------------------------------
(* Stream reader *)

Callers == 1..NumCallers
Partitions == {"p0", "p1"}
PartitionOrders == {<<"p0", "p1">>, <<"p1", "p0">>}
OffsetReset == {"earliest", "latest"}

NoDetails == [topic_name |-> "", broker_ip |-> "", broker_port |-> 0]

\* _get_topic_and_broker_details without its three "if not ...: raise" checks
get_topic_and_broker_details_unchecked(d, dataset_id) ==
    LET links == {l \in d.links : l.dataset_id = dataset_id}
        topics == {t \in d.topics : \E l \in links : t.id = l.topic_id}
        brokers == {b \in d.brokers : \E t \in topics : b.id = t.broker_id}
    IN  IF brokers = {} \/ topics = {}
        THEN [raised |-> "", details |-> NoDetails]
        ELSE [raised |-> "",
              details |-> [topic_name |-> (CHOOSE t \in topics : TRUE).topic_name,
                           broker_ip |-> (CHOOSE b \in brokers : TRUE).broker_ip,
                           broker_port |-> (CHOOSE b \in brokers : TRUE).broker_port]]

\* DatasetService._get_topic_and_broker_details: link, then topic, then broker
get_topic_and_broker_details(d, dataset_id) ==
    LET dataset_topic_detail ==
            one_or_none({l \in d.links : l.dataset_id = dataset_id})
        topic_detail ==
            one_or_none({t \in d.topics : t.id = dataset_topic_detail.row.topic_id})
        broker_detail ==
            one_or_none({b \in d.brokers : b.id = topic_detail.row.broker_id})
    IN  IF dataset_topic_detail.found # "Row"
        THEN [raised |-> IF dataset_topic_detail.found = "None"
                         THEN "NoResultFound" ELSE dataset_topic_detail.found,
              details |-> NoDetails]
        ELSE IF topic_detail.found # "Row"
        THEN [raised |-> "NoResultFound", details |-> NoDetails]
        ELSE IF broker_detail.found # "Row"
        THEN [raised |-> "NoResultFound", details |-> NoDetails]
        ELSE [raised |-> "",
              details |-> [topic_name |-> topic_detail.row.topic_name,
                           broker_ip |-> broker_detail.row.broker_ip,
                           broker_port |-> broker_detail.row.broker_port]]

Min(a, b) == IF a <= b THEN a ELSE b

\* KafkaConsumer.poll(timeout_ms, max_records): of what the partitions delivered
\* within the timeout, in the order the fetches completed, at most max_records
\* messages; a partition is in the result only with at least one message.
RECURSIVE drain(_, _, _)
drain(order, fetched, max_records) ==
    IF order = <<>> THEN <<>>
    ELSE LET tp == Head(order)
             n == Min(fetched[tp], max_records)
             rest == drain(Tail(order), fetched, max_records - n)
         IN  IF n > 0 THEN <<[partition |-> tp, count |-> n]>> \o rest ELSE rest

\* poll with a value_deserializer that drops the message it cannot decode
\* (the first of the batch) and returns the rest
poll_skipping_undecodable(fetched, order, fault, max_records) ==
    LET messages == drain(order, fetched,
                          IF max_records = None THEN MAX_POLL_RECORDS
                          ELSE max_records)
        rest == IF messages = <<>> THEN <<>>
                ELSE IF Head(messages).count = 1 THEN Tail(messages)
                ELSE <<[Head(messages) EXCEPT !.count = @ - 1]>> \o Tail(messages)
    IN  IF fault = "Transport" THEN [raised |-> fault, messages |-> <<>>]
        ELSE IF fault = "Decode"
        THEN [raised |-> "", messages |-> rest]
        ELSE [raised |-> "", messages |-> messages]

\* The records pass through value_deserializer, json.loads(x.decode("utf-8")),
\* as the poll takes them from the fetch; fault "Decode" stands for a batch
\* whose first message is not UTF-8 encoded JSON, and the error of the
\* deserializer leaves the poll as it is.
poll(fetched, order, fault, max_records) ==
    LET messages == drain(order, fetched,
                          IF max_records = None THEN MAX_POLL_RECORDS
                          ELSE max_records)
    IN  IF fault = "Transport" THEN [raised |-> fault, messages |-> <<>>]
        ELSE IF fault = "Decode" /\ messages # <<>>
        THEN [raised |-> fault, messages |-> <<>>]
        ELSE [raised |-> "", messages |-> messages]

\* poll returning only for records or an error, never for its timeout
poll_returns_without_deadline(fetched, fault, waited, timeout_ms) ==
    \/ fault # "none"
    \/ \E tp \in DOMAIN fetched : fetched[tp] > 0

\* When consumer.poll(timeout_ms) returns: with the records that were fetched,
\* with an error, or, with nothing, once it has blocked for timeout_ms
poll_returns(fetched, fault, waited, timeout_ms) ==
    \/ fault # "none"
    \/ \E tp \in DOMAIN fetched : fetched[tp] > 0
    \/ waited >= timeout_ms

\* [message.value for partition_messages in messages.values()
\*                for message in partition_messages]
RECURSIVE message_values(_)
message_values(messages) ==
    IF messages = <<>> THEN <<>>
    ELSE [i \in 1..Head(messages).count |-> <<Head(messages).partition, i>>]
         \o message_values(Tail(messages))

\* __fetch_stream_data closing its consumer on the path that returns records only
fetch_stream_data_close_on_return(polled) ==
    IF polled.raised # ""
    THEN [raised |-> polled.raised, records |-> <<>>, close |-> FALSE]
    ELSE IF polled.messages = <<>>
    THEN [raised |-> "NoMessagesFound", records |-> <<>>, close |-> FALSE]
    ELSE [raised |-> "", records |-> message_values(polled.messages),
          close |-> TRUE]

\* __fetch_stream_data returning whatever the poll returned
fetch_stream_data_unchecked(polled) ==
    IF polled.raised # ""
    THEN [raised |-> polled.raised, records |-> <<>>, close |-> TRUE]
    ELSE [raised |-> "", records |-> message_values(polled.messages),
          close |-> TRUE]

\* DatasetService.__fetch_stream_data, from the result of the poll on: what it
\* raises or returns, and whether the finally clause closes the consumer
fetch_stream_data(polled) ==
    IF polled.raised # ""
    THEN [raised |-> polled.raised, records |-> <<>>, close |-> TRUE]
    ELSE IF polled.messages = <<>>
    THEN [raised |-> "NoMessagesFound", records |-> <<>>, close |-> TRUE]
    ELSE [raised |-> "", records |-> message_values(polled.messages),
          close |-> TRUE]

\* DatasetTopicData counting the partitions of the poll
DatasetTopicData_partitions(dataset_id, records, polled, topic_name) ==
    [dataset_id |-> dataset_id, records |-> records,
     record_count |-> Len(polled.messages), topic_name |-> topic_name]

\* DatasetTopicData as fetch_dataset_topic_data builds it
DatasetTopicData(dataset_id, records, polled, topic_name) ==
    [dataset_id |-> dataset_id, records |-> records,
     record_count |-> Len(records), topic_name |-> topic_name]

NoData ==
    [dataset_id |-> 0, records |-> <<>>, record_count |-> 0, topic_name |-> ""]

\* fetch_dataset_topic_data reporting every error but NoMessagesFound as a
\* dataset that was not found
fetch_dataset_topic_data_raises_not_found(raised) ==
    IF raised = "" THEN ""
    ELSE IF raised = "NoMessagesFound" THEN "NoMessagesFound"
    ELSE "NoResultFound"

\* The except clauses of fetch_dataset_topic_data: what the service raises
fetch_dataset_topic_data_raises(raised) ==
    IF raised = "NoResultFound" THEN "NoResultFound"
    ELSE IF raised = "NoMessagesFound" THEN "NoMessagesFound"
    ELSE raised

\* The response of the endpoint fetch_datasets_topic_data
fetch_datasets_topic_data_status(raised) ==
    IF raised = "" THEN HTTP_200_OK
    ELSE IF raised = "NoResultFound" THEN HTTP_404_NOT_FOUND
    ELSE IF raised = "NoMessagesFound" THEN HTTP_404_NOT_FOUND
    ELSE HTTP_500_INTERNAL_SERVER_ERROR

NoPoll == [raised |-> "", messages |-> <<>>]
NoResult == [raised |-> "", records |-> <<>>, close |-> FALSE]

\* One invocation of fetch_dataset_topic_data
IdleCall ==
    [pc |-> "idle", dataset_id |-> 0, no_of_records |-> None,
     offset_reset |-> "latest", details |-> NoDetails,
     connects |-> 0, opened |-> 0, polls |-> 0, closed |-> 0, waited |-> 0,
     fault |-> "none",
     polled |-> NoPoll, result |-> NoResult,
     raised |-> "", data |-> NoData, status |-> 0]

NoCalls == [c \in Callers |-> IdleCall]

----------------------------------------------------------------------------
(* Metadata service calls in progress *)

\* The rows a transaction has written and not yet committed: the rows it
\* inserted and the rows it deleted, per table
NoChanges == [added |-> EmptyDb, deleted |-> EmptyDb]

\* One worker of the API server: the call it is in, where it stands in it,
\* the arguments and the id of the call, and the open transaction
IdleTxn ==
    [pc |-> "idle", op |-> "none", name |-> "", ref |-> 0, ref2 |-> 0, id |-> 0,
     changes |-> NoChanges]

NoTxns == [w \in Callers |-> IdleTxn]

\* The rows of the store as a transaction with these changes reads them
\* (READ COMMITTED): what is committed by now, and its own writes
visible(d, changes) ==
    [table \in DOMAIN d |->
        (d[table] \ changes.deleted[table]) \cup changes.added[table]]

----------------------------------------------------------------------------
(* The metadata service calls as steps *)

Init ==
    /\ db = EmptyDb
    /\ res = NoCall
    /\ calls = NoCalls
    /\ consumers = {}
    /\ txns = NoTxns

StreamIdle == UNCHANGED <<calls, consumers>>

\* A call that runs from its first query to its commit with no other call in
\* between
Alone == StreamIdle /\ UNCHANGED txns

\* The rows of a table that calls in progress have inserted (and, after their
\* commit, still hold as instances of their session) or are about to delete;
\* the sequence of the table never hands an id out again, so no new row gets
\* the id of a row that a call in progress still refers to
Pending(table) ==
    UNION {txns[w].changes.added[table] \cup txns[w].changes.deleted[table] :
            w \in Callers}

Schemas == {"object"}

\* POST /datasets/broker: the body is validated as BrokerBase (a failure is
\* answered 422 before the service is called), then register_broker stores
\* the address as validate_broker_ip returns it
RegisterBroker(ips, ports) ==
    \E name \in BrokerNames, ip \in ips, port \in ports :
        \E id \in FreshIds(db.brokers, MaxBrokerId) :
            LET data == BrokerBase(name, ip, port)
                r == register_broker(db, data.name, validate_broker_ip(data.ip),
                                     data.port, id)
            IN  IF data.valid
                THEN /\ WithinBounds(r.db)
                     /\ db' = r.db
                     /\ res' = [r.res EXCEPT !.args = <<ip, port>>]
                     /\ Alone
                ELSE /\ db' = db
                     /\ res' = [Response("register_broker", name, 0, 0,
                                         "Validation", 0)
                                    EXCEPT !.args = <<ip, port>>]
                     /\ Alone

BrokerDeregister ==
    \E broker_id \in BrokerIds :
        LET r == broker_deregister(db, broker_id)
        IN  WithinBounds(r.db) /\ db' = r.db /\ res' = r.res /\ Alone

RegisterTopic ==
    \E broker_id \in BrokerIds, name \in TopicNames, schema \in Schemas :
        \E id \in FreshIds(db.topics, MaxTopicId) :
            LET r == register_topic(db, broker_id, name, schema, id)
            IN  WithinBounds(r.db) /\ db' = r.db /\ res' = r.res /\ Alone

TopicDeregister ==
    \E topic_id \in TopicIds :
        LET r == topic_deregister(db, topic_id)
        IN  WithinBounds(r.db) /\ db' = r.db /\ res' = r.res /\ Alone

\* POST /datasets/file
UploadFile(filenames) ==
    \E name \in DatasetNames, filename \in filenames :
        \E id \in FreshIds(db.datasets \cup Pending("datasets"), MaxDatasetId) :
          \E file_id \in DetailIds(db.files \cup Pending("files"), id) :
            LET r == add_dataset_details_to_db(db, name, filename, id, file_id)
            IN  WithinBounds(r.db) /\ db' = r.db /\ res' = r.res /\ Alone

AddDatasetDetailsToDb == UploadFile(FileNames)

\* PUT /datasets/file
UpdateFile ==
    \E dataset_id \in DatasetIds, name \in UpdateDatasetNames,
       filename \in FileNames, fail \in {"none", "storage"} :
        LET r == update_file(db, dataset_id, name, filename, fail)
        IN  db' = r.db /\ res' = r.res /\ Alone

\* POST /datasets/table
RegisterTable(table_names, fields) ==
    \E name \in DatasetNames, table_name \in table_names,
       selected_fields \in fields :
        \E id \in FreshIds(db.datasets \cup Pending("datasets"), MaxDatasetId) :
          \E table_id \in DetailIds(db.tables \cup Pending("tables"), id) :
            LET r == register_dataset_table(
                         db, name, table_name, selected_fields, id, table_id)
            IN  WithinBounds(r.db) /\ db' = r.db /\ res' = r.res /\ Alone

RegisterDatasetTable == RegisterTable(TableNames, SelectedFields)

\* POST /datasets/message linking a dataset id that is not new
RegisterMessageDetails_for_any_dataset(failures) ==
    \E name \in DatasetNames, broker_id \in BrokerIds, topic_id \in TopicIds,
       fail \in failures :
        \E id \in DatasetIds,
           link_id \in FreshIds(db.links, MaxDatasetId) :
            LET r == register_dataset_message_details(
                         db, name, broker_id, topic_id, id, link_id, fail)
            IN  WithinBounds(r.db) /\ db' = r.db /\ res' = r.res /\ Alone

\* POST /datasets/message
RegisterMessageDetails(failures) ==
    \E name \in DatasetNames, broker_id \in BrokerIds, topic_id \in TopicIds,
       fail \in failures :
        \E id \in FreshIds(db.datasets \cup Pending("datasets"), MaxDatasetId),
           link_id \in FreshIds(db.links \cup Pending("links"), MaxDatasetId) :
            LET r == register_dataset_message_details(
                         db, name, broker_id, topic_id, id, link_id, fail)
            IN  WithinBounds(r.db) /\ db' = r.db /\ res' = r.res /\ Alone

RegisterDatasetMessageDetails == RegisterMessageDetails(Failures)

FetchDatasetMessageDetails ==
    \E dataset_id \in DatasetIds :
        /\ res' = fetch_dataset_message_details(db, dataset_id)
        /\ UNCHANGED db
        /\ Alone

DatasetMessageDeregister ==
    \E dataset_id \in DatasetIds, fail \in {"none", "commit"} :
        LET r == dataset_message_deregister(db, dataset_id, fail)
        IN  WithinBounds(r.db) /\ db' = r.db /\ res' = r.res /\ Alone

\* GET /datasets/broker/details: 200 with the list, 404 for NoResultFound
FetchBrokerDetails ==
    LET r == fetch_broker_details(db)
    IN  /\ res' = [Response("fetch_broker_details", "", 0, 0,
                            IF r.raised = "" THEN "Ok" ELSE "NotFound", 0)
                        EXCEPT !.args = <<r.result>>]
        /\ UNCHANGED db
        /\ Alone

\* GET /datasets/topic/details: 200 with the list, 404 for NoResultFound
FetchTopicDetails ==
    LET r == fetch_topic_details(db)
    IN  /\ res' = [Response("fetch_topic_details", "", 0, 0,
                            IF r.raised = "" THEN "Ok" ELSE "NotFound", 0)
                        EXCEPT !.args = <<r.result>>]
        /\ UNCHANGED db
        /\ Alone

\* The fields f holds, cut down to the keys a request supplied
Supplied(f, keys) == [key \in keys |-> f[key]]

\* BrokerUpdate: each of name, ip (IPvAnyAddress), port (gt=0) optional
BrokerUpdate ==
    {Supplied(f, keys) :
        f \in [broker_name : UpdateBrokerNames,
               broker_ip : {IPvAnyAddress(ip) : ip \in UpdateIps},
               broker_port : UpdatePorts],
        keys \in SUBSET {"broker_name", "broker_ip", "broker_port"}}

\* TopicUpdate: each of name, schema optional
TopicUpdate ==
    {Supplied(f, keys) :
        f \in [topic_name : UpdateTopicNames, topic_schema : UpdateSchemas],
        keys \in SUBSET {"topic_name", "topic_schema"}}

\* The ids an update is tried on: the id of every row, and the next id, which
\* no row has
UpdateIds(rows, maxId) ==
    {r.id : r \in rows} \cup {CHOOSE i \in FreshIds(rows, maxId) :
                                \A j \in FreshIds(rows, maxId) : i <= j}

\* PATCH /datasets/broker/{id}
PatchBroker(bodies) ==
    \E id \in UpdateIds(db.brokers, MaxBrokerId), data \in bodies :
        LET r == update_broker(db, id, data)
        IN  /\ db' = r.db
            /\ res' = [r.res EXCEPT !.args = <<data>>]
            /\ Alone

\* PATCH /datasets/broker/topic/{id}
PatchTopic(bodies) ==
    \E id \in UpdateIds(db.topics, MaxTopicId), data \in bodies :
        LET r == update_topic(db, id, data)
        IN  /\ db' = r.db
            /\ res' = [r.res EXCEPT !.args = <<data>>]
            /\ Alone

UpdateBroker == PatchBroker(BrokerUpdate)
UpdateTopic == PatchTopic(TopicUpdate)

\* DELETE /datasets/file/{id}
DeregisterDataset ==
    \E dataset_id \in DatasetIds, fail \in {"none", "storage", "commit"} :
        LET r == deregister_dataset(db, dataset_id, fail)
        IN  WithinBounds(r.db) /\ db' = r.db /\ res' = r.res /\ Alone

\* The registry the linker starts from: two brokers, each hosting a topic of
\* the same name, as the registry calls leave them.
LinkerRegistry ==
    LET b1 == register_broker(EmptyDb, "broker-1", "127.0.0.1", 9092, 1).db
        b2 == register_broker(b1, "broker-2", "127.0.0.1", 9092, 2).db
        t1 == register_topic(b2, 1, "telemetry", "object", 1).db
    IN  register_topic(t1, 2, "telemetry", "object", 2).db

InitLinker ==
    /\ db = LinkerRegistry
    /\ res = NoCall
    /\ calls = NoCalls
    /\ consumers = {}
    /\ txns = NoTxns

\* The registry the updates start from: LinkerRegistry with a dataset linked to
\* each of its topics
UpdateRegistry ==
    LET d1 == register_dataset_message_details(
                  LinkerRegistry, "sensor-ds", 1, 1, 1, 1, "none").db
    IN  register_dataset_message_details(d1, "sensor-ds", 2, 2, 2, 2, "none").db

InitUpdate ==
    /\ db = UpdateRegistry
    /\ res = NoCall
    /\ calls = NoCalls
    /\ consumers = {}
    /\ txns = NoTxns

\* Broker registry and topic registry, with requests that pass validation
RegistryRegisterBroker == RegisterBroker(BrokerIps, BrokerPorts)

NextRegistry ==
    \/ RegistryRegisterBroker
    \/ BrokerDeregister
    \/ RegisterTopic
    \/ TopicDeregister
    \/ FetchBrokerDetails
    \/ FetchTopicDetails

SpecRegistry == Init /\ [][NextRegistry]_vars

\* Broker registry under every request body
RequestsRegisterBroker == RegisterBroker(RequestIps, RequestPorts)

NextRequests ==
    \/ RequestsRegisterBroker
    \/ BrokerDeregister

SpecRequests == Init /\ [][NextRequests]_vars

\* Uploads of one file name
LinkerUploadFile == UploadFile({"f.csv"})

\* Dataset-topic linker over a registry that brokers and topics can leave
NextLinker ==
    \/ BrokerDeregister
    \/ TopicDeregister
    \/ LinkerUploadFile
    \/ RegisterDatasetMessageDetails
    \/ FetchDatasetMessageDetails
    \/ DatasetMessageDeregister

SpecLinker == InitLinker /\ [][NextLinker]_vars

\* Updates over a registry whose topics are linked to datasets
NextUpdate ==
    \/ UpdateBroker
    \/ UpdateTopic

SpecUpdate == InitUpdate /\ [][NextUpdate]_vars

\* The whole metadata store over the registry of the linker: renames and
\* deletions of brokers and topics around registrations and deletions of
\* datasets and links
StoreUpdateBroker == PatchBroker([broker_name : BrokerNames])
StoreUpdateTopic == PatchTopic([topic_name : TopicNames])
StoreRegisterMessageDetails == RegisterMessageDetails({"none"})

NextStore ==
    \/ StoreUpdateBroker
    \/ BrokerDeregister
    \/ StoreUpdateTopic
    \/ TopicDeregister
    \/ LinkerUploadFile
    \/ StoreRegisterMessageDetails
    \/ DatasetMessageDeregister
    \/ DeregisterDataset

SpecStore == InitLinker /\ [][NextStore]_vars

\* Broker registry and topic registry with renames, from an empty store on
NextCatalog ==
    \/ RegistryRegisterBroker
    \/ StoreUpdateBroker
    \/ BrokerDeregister
    \/ RegisterTopic
    \/ StoreUpdateTopic
    \/ TopicDeregister

SpecCatalog == Init /\ [][NextCatalog]_vars
----------------------------------------------------------------------------
(* Metadata service calls as steps of concurrent workers: each worker has a
   session of its own, reads what is committed, and publishes its writes at
   its commit *)

\* self.db_app.add(row); self.db_app.flush() publishing the row at once, as
\* a commit would
add_and_commit(d, changes, table, row) ==
    [db |-> [d EXCEPT ![table] = @ \cup {row}], changes |-> changes]

\* self.db_app.add(row); self.db_app.flush(): the INSERT is sent inside the
\* transaction, no other session reads the row
add_and_flush(d, changes, table, row) ==
    [db |-> d, changes |-> [changes EXCEPT !.added[table] = @ \cup {row}]]

\* register_dataset_message_details up to the flush of its dataset row
MessageRegisterFlush(w) ==
    /\ txns[w].pc = "idle"
    /\ \E name \in DatasetNames, broker_id \in BrokerIds, topic_id \in TopicIds :
        \E id \in FreshIds(db.datasets \cup Pending("datasets"), MaxDatasetId) :
            LET op == "register_dataset_message_details"
                broker_info == one_or_none({b \in db.brokers : b.id = broker_id})
                topic_info == one_or_none({t \in db.topics : t.id = topic_id})
                r == add_and_flush(db, NoChanges, "datasets",
                                   DatasetRow(id, name, BROKER_DATA_SOURCE_TYPE))
            IN  IF broker_info.found # "Row"
                THEN /\ res' = Response(op, name, broker_id, topic_id, "NotFoundBroker", 0)
                     /\ UNCHANGED <<db, txns>>
                ELSE IF topic_info.found # "Row"
                THEN /\ res' = Response(op, name, broker_id, topic_id, "NotFoundTopic", 0)
                     /\ UNCHANGED <<db, txns>>
                ELSE /\ id <= MaxDatasetId
                     /\ db' = r.db
                     /\ txns' = [txns EXCEPT ![w] =
                            [pc |-> "flushed", op |-> op, name |-> name,
                             ref |-> broker_id, ref2 |-> topic_id, id |-> id,
                             changes |-> r.changes]]
                     /\ UNCHANGED res
    /\ StreamIdle

\* register_dataset_message_details from the link row to the commit; the
\* INSERT of the link is refused when its topic or its dataset is gone
\* (DBIntegrityError: rollback, IntegrityError, which the endpoint answers 409)
MessageRegisterCommit(w) ==
    /\ txns[w].pc = "flushed"
    /\ \E fail \in {"none", "commit"} :
        \E link_id \in FreshIds(db.links \cup Pending("links"), MaxDatasetId) :
            LET t == txns[w]
                dataset_topic_info == [id |-> link_id, topic_id |-> t.ref2,
                                       dataset_id |-> t.id]
                r == add_and_flush(db, t.changes, "links", dataset_topic_info)
                seen == visible(r.db, r.changes)
            IN  IF /\ fail = "none"
                   /\ \E tp \in seen.topics : tp.id = t.ref2
                   /\ \E ds \in seen.datasets : ds.id = t.id
                THEN /\ link_id <= MaxDatasetId
                     /\ db' = seen
                     /\ txns' = [txns EXCEPT ![w] =
                            [t EXCEPT !.pc = "committed", !.changes = r.changes]]
                     /\ UNCHANGED res
                ELSE /\ db' = r.db
                     /\ res' = Response(t.op, t.name, t.ref, t.ref2,
                                        IF fail = "none" THEN "Conflict"
                                        ELSE "DatabaseError", 0)
                     /\ txns' = [txns EXCEPT ![w] = IdleTxn]
    /\ StreamIdle

\* register_dataset_message_details after its commit: the commit expired the
\* rows the session holds, so dataset_info.id, from_orm(broker_info) and
\* from_orm(topic_info) read them again; a row that another session has
\* deleted by then raises ObjectDeletedError (rollback, re-raised: 500)
MessageRegisterReload ==
    \E w \in Callers :
        /\ txns[w].pc = "committed"
        /\ txns[w].op = "register_dataset_message_details"
        /\ LET t == txns[w]
               dataset_info == one({ds \in db.datasets : ds.id = t.id})
               broker_info == one({b \in db.brokers : b.id = t.ref})
               topic_info == one({tp \in db.topics : tp.id = t.ref2})
           IN  res' = IF /\ dataset_info.found = "Row"
                         /\ broker_info.found = "Row"
                         /\ topic_info.found = "Row"
                      THEN [Response(t.op, t.name, t.ref, t.ref2, "Ok", t.id)
                               EXCEPT !.args = <<dataset_message_response(
                                                    dataset_info.row, broker_info.row,
                                                    topic_info.row)>>]
                      ELSE Response(t.op, t.name, t.ref, t.ref2, "DatabaseError", 0)
        /\ txns' = [txns EXCEPT ![w] = IdleTxn]
        /\ UNCHANGED db
        /\ StreamIdle

\* dataset_message_deregister up to its two Session.delete calls
MessageDeregisterDelete(w) ==
    /\ txns[w].pc = "idle"
    /\ \E dataset_id \in DatasetIds :
        LET op == "dataset_message_deregister"
            dataset_details ==
                one({ds \in db.datasets :
                        /\ ds.id = dataset_id
                        /\ ds.data_source_type = BROKER_DATA_SOURCE_TYPE})
            topic_details ==
                one_or_none({l \in db.links : l.dataset_id = dataset_details.row.id})
        IN  IF dataset_details.found # "Row"
            THEN /\ res' = Response(op, "", dataset_id, 0, "NotFound", 0)
                 /\ UNCHANGED txns
            ELSE IF topic_details.found = "MultipleResultsFound"
            THEN /\ res' = Response(op, "", dataset_id, 0, "MultipleResultsFound", 0)
                 /\ UNCHANGED txns
            ELSE /\ txns' = [txns EXCEPT ![w] =
                        [pc |-> "deleted", op |-> op, name |-> "",
                         ref |-> dataset_id, ref2 |-> 0, id |-> 0,
                         changes |->
                            [NoChanges EXCEPT
                                !.deleted.datasets = {dataset_details.row},
                                !.deleted.links =
                                    {l \in db.links : l.dataset_id = dataset_id}]]]
                 /\ UNCHANGED res
    /\ UNCHANGED db
    /\ StreamIdle

\* dataset_message_deregister at its commit: the DELETEs of the link and of the
\* dataset are sent and committed together; a row that another session has
\* deleted by then matches no DELETE
MessageDeregisterCommit(w) ==
    /\ txns[w].pc = "deleted"
    /\ txns[w].op = "dataset_message_deregister"
    /\ \E fail \in {"none", "commit"} :
        LET t == txns[w]
        IN  IF fail = "none"
            THEN /\ db' = visible(db, t.changes)
                 /\ res' = Response(t.op, "", t.ref, 0, "Ok", 0)
            ELSE /\ db' = db
                 /\ res' = Response(t.op, "", t.ref, 0, "DatabaseError", 0)
    /\ txns' = [txns EXCEPT ![w] = IdleTxn]
    /\ StreamIdle

AtomicRegisterFlush == \E w \in Callers : MessageRegisterFlush(w)
AtomicRegisterCommit == \E w \in Callers : MessageRegisterCommit(w)
AtomicDeregisterDelete == \E w \in Callers : MessageDeregisterDelete(w)
AtomicDeregisterCommit == \E w \in Callers : MessageDeregisterCommit(w)

\* Registrations and deregistrations of broker-sourced datasets by concurrent
\* workers, with a reader between any two of their steps
NextAtomic ==
    \/ AtomicRegisterFlush
    \/ AtomicRegisterCommit
    \/ MessageRegisterReload
    \/ AtomicDeregisterDelete
    \/ AtomicDeregisterCommit
    \/ FetchDatasetMessageDetails

\* The registry the concurrent calls work on: one broker hosting one topic
AtomicRegistry ==
    register_topic(register_broker(EmptyDb, "broker-1", "127.0.0.1", 9092, 1).db,
                   1, "telemetry", "object", 1).db

InitAtomic ==
    /\ db = AtomicRegistry
    /\ res = NoCall
    /\ calls = NoCalls
    /\ consumers = {}
    /\ txns = NoTxns

SpecAtomic == InitAtomic /\ [][NextAtomic]_vars

\* The workers that serve a call in a thread of the pool
PoolThreads == {w \in Callers : w <= NumPoolThreads}

\* update_dataset_table, a call of the thread pool, up to the result of its
\* first query: the table row of the table name; the session keeps the row and
\* the row as the call is going to write it
TableUpdateLookup ==
    \E w \in PoolThreads :
        /\ txns[w].pc = "idle"
        /\ \E name \in UpdateDatasetNames, table_name \in TableNames,
              selected_fields \in SelectedFields :
            LET op == "update_dataset_table"
                dataset_table_register_info ==
                    one({t \in db.tables : t.table_name = table_name})
                answer(kind) == [Response(op, name, 0, 0, kind, 0)
                                    EXCEPT !.args = <<table_name, selected_fields>>]
            IN  IF dataset_table_register_info.found = "NoResultFound"
                THEN res' = answer("NotFound") /\ UNCHANGED txns
                ELSE IF dataset_table_register_info.found # "Row"
                THEN res' = answer(dataset_table_register_info.found)
                     /\ UNCHANGED txns
                ELSE IF dataset_table_register_info.row.fields_selected_list
                            = selected_fields
                THEN res' = answer("DatasetTableExists") /\ UNCHANGED txns
                ELSE /\ txns' = [txns EXCEPT ![w] =
                            [pc |-> "table", op |-> op, name |-> name,
                             ref |-> dataset_table_register_info.row.dataset_id,
                             ref2 |-> 0, id |-> dataset_table_register_info.row.id,
                             changes |->
                                [NoChanges EXCEPT
                                    !.deleted.tables =
                                        {dataset_table_register_info.row},
                                    !.added.tables =
                                        {[dataset_table_register_info.row EXCEPT
                                            !.fields_selected_list = selected_fields]}]]]
                     /\ UNCHANGED res
        /\ UNCHANGED db
        /\ StreamIdle

\* update_dataset_table at its second query: the dataset row of the table row
\* it holds, as the store has it by now
TableUpdateDataset ==
    \E w \in PoolThreads :
        /\ txns[w].pc = "table"
        /\ txns[w].op = "update_dataset_table"
        /\ LET t == txns[w]
               table_update == CHOOSE row \in t.changes.added.tables : TRUE
               dataset_info == one({ds \in db.datasets : ds.id = t.ref})
               answer(kind) ==
                   [Response(t.op, t.name, 0, 0, kind, 0)
                       EXCEPT !.args = <<table_update.table_name,
                                         table_update.fields_selected_list>>]
           IN  IF dataset_info.found = "NoResultFound"
               THEN res' = answer("NotFound")
                    /\ txns' = [txns EXCEPT ![w] = IdleTxn]
               ELSE IF dataset_info.found # "Row"
               THEN res' = answer(dataset_info.found)
                    /\ txns' = [txns EXCEPT ![w] = IdleTxn]
               ELSE /\ txns' = [txns EXCEPT ![w] =
                           [t EXCEPT !.pc = "found",
                                     !.changes.deleted.datasets = {dataset_info.row},
                                     !.changes.added.datasets =
                                        {[dataset_info.row EXCEPT
                                            !.dataset_name = t.name]}]]
                    /\ UNCHANGED res
        /\ UNCHANGED db
        /\ StreamIdle

\* update_dataset_table at its commit: an UPDATE by primary key for each row
\* the call changed (the dataset row only when the name is new to it); an
\* UPDATE that matches no row, because another call has deleted the row since
\* it was read, raises StaleDataError, which leaves the service as it is and
\* is answered 500 with nothing committed
TableUpdateCommit ==
    \E w \in PoolThreads :
        /\ txns[w].pc = "found"
        /\ txns[w].op = "update_dataset_table"
        /\ LET t == txns[w]
               table_update == CHOOSE row \in t.changes.added.tables : TRUE
               read == CHOOSE ds \in t.changes.deleted.datasets : TRUE
               renamed == read.dataset_name # t.name
               dataset_info == one({ds \in db.datasets : ds.id = t.ref})
               dataset_table_register_info == one({tb \in db.tables : tb.id = t.id})
               updated ==
                   [db EXCEPT
                       !.datasets = IF renamed
                                    THEN (@ \ {dataset_info.row})
                                            \cup {[dataset_info.row EXCEPT
                                                    !.dataset_name = t.name]}
                                    ELSE @,
                       !.tables = (@ \ {dataset_table_register_info.row})
                                    \cup {[dataset_table_register_info.row EXCEPT
                                            !.fields_selected_list =
                                                table_update.fields_selected_list]}]
           IN  IF \/ dataset_table_register_info.found # "Row"
                  \/ renamed /\ dataset_info.found # "Row"
               THEN /\ res' = [Response(t.op, t.name, 0, 0, "DatabaseError", 0)
                                  EXCEPT !.args =
                                      <<table_update.table_name,
                                        table_update.fields_selected_list>>]
                    /\ txns' = [txns EXCEPT ![w] = IdleTxn]
                    /\ UNCHANGED db
               ELSE /\ db' = updated
                    /\ txns' = [txns EXCEPT ![w] = [t EXCEPT !.pc = "committed"]]
                    /\ UNCHANGED res
        /\ StreamIdle

\* update_dataset_table after its commit, which expired both rows: building
\* the result reads the table row again first; when another call has deleted
\* it by then the read raises ObjectDeletedError, answered 500 with the update
\* committed
TableUpdateReloadTable ==
    \E w \in PoolThreads :
        /\ txns[w].pc = "committed"
        /\ txns[w].op = "update_dataset_table"
        /\ LET t == txns[w]
               table_update == CHOOSE row \in t.changes.added.tables : TRUE
               dataset_table_register_info == one({tb \in db.tables : tb.id = t.id})
           IN  IF dataset_table_register_info.found = "Row"
               THEN /\ txns' = [txns EXCEPT ![w] =
                           [t EXCEPT !.pc = "reloaded",
                                     !.changes.added.tables =
                                        {dataset_table_register_info.row}]]
                    /\ UNCHANGED res
               ELSE /\ res' = [Response(t.op, t.name, 0, 0, "DatabaseError", 0)
                                  EXCEPT !.args =
                                      <<table_update.table_name,
                                        table_update.fields_selected_list>>]
                    /\ txns' = [txns EXCEPT ![w] = IdleTxn]
        /\ UNCHANGED db
        /\ StreamIdle

\* update_dataset_table at the last read for its result: the dataset row, as
\* the store has it by now, next to the table row as it was read a step
\* before; a deleted dataset row raises ObjectDeletedError (500)
TableUpdateReloadDataset ==
    \E w \in PoolThreads :
        /\ txns[w].pc = "reloaded"
        /\ txns[w].op = "update_dataset_table"
        /\ LET t == txns[w]
               dataset_table_register_info ==
                   CHOOSE row \in t.changes.added.tables : TRUE
               dataset_info == one({ds \in db.datasets : ds.id = t.ref})
               args == <<dataset_table_register_info.table_name,
                         dataset_table_register_info.fields_selected_list>>
           IN  res' = IF dataset_info.found = "Row"
                      THEN [Response(t.op, dataset_info.row.dataset_name, 0, 0,
                                     "Ok", dataset_info.row.id)
                               EXCEPT !.args = args]
                      ELSE [Response(t.op, t.name, 0, 0, "DatabaseError", 0)
                               EXCEPT !.args = args]
        /\ txns' = [txns EXCEPT ![w] = IdleTxn]
        /\ UNCHANGED db
        /\ StreamIdle

\* PUT /datasets/table is served by a thread of the pool, so the calls served
\* on the event loop (the deregistrations) run between any two of its steps,
\* as do the steps of another PUT
NextTableRace ==
    \/ TableUpdateLookup
    \/ TableUpdateDataset
    \/ TableUpdateCommit
    \/ TableUpdateReloadTable
    \/ TableUpdateReloadDataset
    \/ DatasetMessageDeregister
    \/ DeregisterDataset

\* The store the concurrent calls on a table dataset start from: the registry
\* of one broker and one topic, table t1 registered as dataset 1, and dataset
\* 2 linked to the topic
InitTableRace ==
    /\ db = register_dataset_message_details(
                register_dataset_table(
                    AtomicRegistry, "sensor-ds", "t1", "a", 1, 1).db,
                "sensor-ds", 1, 1, 2, 1, "none").db
    /\ res = NoCall
    /\ calls = NoCalls
    /\ consumers = {}
    /\ txns = NoTxns

SpecTableRace == InitTableRace /\ [][NextTableRace]_vars

\* The calls served on the event loop that write a dataset row: uploads,
\* table registrations and message registrations, the file update and the
\* deregistrations, over a registry of one broker and one topic
NextDatasets ==
    \/ AddDatasetDetailsToDb
    \/ UpdateFile
    \/ RegisterDatasetTable
    \/ StoreRegisterMessageDetails
    \/ DatasetMessageDeregister
    \/ DeregisterDataset

SpecDatasets == InitAtomic /\ [][NextDatasets]_vars

\* The metadata the resolve step reads, over the registry of the updates:
\* brokers change their port, topics their name, and brokers, topics and
\* datasets leave
ResolveUpdateBroker == PatchBroker([broker_port : UpdatePorts])

NextResolve ==
    \/ ResolveUpdateBroker
    \/ StoreUpdateTopic
    \/ BrokerDeregister
    \/ TopicDeregister
    \/ StoreRegisterMessageDetails
    \/ DatasetMessageDeregister
    \/ DeregisterDataset

SpecResolve == InitUpdate /\ [][NextResolve]_vars

----------------------------------------------------------------------------
(* Registry calls as steps of concurrent workers *)

\* ForeignKey("broker_details.id") of topic_details.broker_id and
\* ForeignKey("topic_details.id") of dataset_topic_details.topic_id, without
\* the check of the store
references_unchecked(d) == TRUE

\* ForeignKey("broker_details.id") of topic_details.broker_id and
\* ForeignKey("topic_details.id") of dataset_topic_details.topic_id: the store
\* refuses a statement that would leave a row referring to a row that is gone
references(d) ==
    /\ \A t \in d.topics : \E b \in d.brokers : b.id = t.broker_id
    /\ \A l \in d.links : \E t \in d.topics : t.id = l.topic_id

\* register_broker from add() to commit(): the INSERT and its commit, or the
\* DBIntegrityError of the INSERT and the rollback
BrokerRegisterCommit(w) ==
    /\ txns[w].pc = "idle"
    /\ \E name \in BrokerNames, ip \in BrokerIps, port \in BrokerPorts :
        \E id \in FreshIds(db.brokers \cup Pending("brokers"), MaxBrokerId) :
            LET data == BrokerBase(name, ip, port)
                broker_details == [id |-> id, broker_name |-> data.name,
                                   broker_ip |-> validate_broker_ip(data.ip),
                                   broker_port |-> data.port]
                r == add_and_flush(db, NoChanges, "brokers", broker_details)
                seen == visible(r.db, r.changes)
            IN  IF unique_broker_per_dataset(seen.brokers)
                THEN /\ id <= MaxBrokerId
                     /\ db' = seen
                     /\ txns' = [txns EXCEPT ![w] =
                            [IdleTxn EXCEPT !.pc = "committed",
                                            !.op = "register_broker",
                                            !.name = name, !.id = id,
                                            !.changes = r.changes]]
                     /\ UNCHANGED res
                ELSE /\ db' = r.db
                     /\ txns' = [txns EXCEPT ![w] =
                            [IdleTxn EXCEPT !.pc = "conflict",
                                            !.op = "register_broker",
                                            !.name = name]]
                     /\ UNCHANGED res
    /\ StreamIdle

\* register_broker after its commit: the commit expired broker_details, so
\* BrokerResponse.from_orm reads the row again; when another session has
\* deleted it by then the read raises ObjectDeletedError (rollback,
\* re-raised: 500)
BrokerRegisterReload ==
    \E w \in Callers :
        /\ txns[w].pc = "committed"
        /\ txns[w].op = "register_broker"
        /\ LET t == txns[w]
               broker_details == one({b \in db.brokers : b.id = t.id})
           IN  res' = IF broker_details.found = "Row"
                      THEN Response(t.op, t.name, 0, 0, "Ok", t.id)
                      ELSE Response(t.op, t.name, 0, 0, "DatabaseError", 0)
        /\ txns' = [txns EXCEPT ![w] = IdleTxn]
        /\ UNCHANGED db
        /\ StreamIdle

\* register_broker in its except clause: the lookup of the existing broker
BrokerRegisterExisting(w) ==
    /\ txns[w].pc = "conflict"
    /\ txns[w].op = "register_broker"
    /\ LET name == txns[w].name
           existing_broker == one({b \in db.brokers : b.broker_name = name})
       IN  res' = IF existing_broker.found = "Row"
                  THEN Response("register_broker", name, 0, 0, "Conflict",
                                existing_broker.row.id)
                  ELSE Response("register_broker", name, 0, 0,
                                existing_broker.found, 0)
    /\ txns' = [txns EXCEPT ![w] = IdleTxn]
    /\ UNCHANGED db
    /\ StreamIdle

\* broker_deregister up to Session.delete, which loads the broker's topics and
\* their links for the cascade
BrokerDeregisterDelete(w) ==
    /\ txns[w].pc = "idle"
    /\ \E broker_id \in BrokerIds :
        LET broker_details == one({b \in db.brokers : b.id = broker_id})
            gone == {t \in db.topics : t.broker_id = broker_id}
        IN  IF broker_details.found # "Row"
            THEN /\ res' = Response("broker_deregister", "", broker_id, 0, "NotFound", 0)
                 /\ UNCHANGED txns
            ELSE /\ txns' = [txns EXCEPT ![w] =
                        [IdleTxn EXCEPT
                            !.pc = "deleted", !.op = "broker_deregister",
                            !.ref = broker_id,
                            !.changes.deleted.brokers = {broker_details.row},
                            !.changes.deleted.topics = gone,
                            !.changes.deleted.links =
                                {l \in db.links : \E t \in gone : l.topic_id = t.id}]]
                 /\ UNCHANGED res
    /\ UNCHANGED db
    /\ StreamIdle

\* broker_deregister at its commit: the DELETEs of the loaded links and topics
\* and of the broker
BrokerDeregisterCommit(w) ==
    /\ txns[w].pc = "deleted"
    /\ txns[w].op = "broker_deregister"
    /\ LET t == txns[w]
           seen == visible(db, t.changes)
       IN  IF references(seen)
           THEN /\ db' = seen
                /\ res' = Response(t.op, "", t.ref, 0, "Ok", 0)
           ELSE /\ db' = db
                /\ res' = Response(t.op, "", t.ref, 0, "DatabaseError", 0)
    /\ txns' = [txns EXCEPT ![w] = IdleTxn]
    /\ StreamIdle

\* register_topic up to the lookup of its broker
TopicRegisterLookup(w, names) ==
    /\ txns[w].pc = "idle"
    /\ \E broker_id \in BrokerIds, name \in names :
        LET broker_info == one_or_none({b \in db.brokers : b.id = broker_id})
        IN  IF broker_info.found # "Row"
            THEN /\ res' = Response("register_topic", name, broker_id, 0, "NotFound", 0)
                 /\ UNCHANGED txns
            ELSE /\ txns' = [txns EXCEPT ![w] =
                        [IdleTxn EXCEPT !.pc = "found", !.op = "register_topic",
                                        !.name = name, !.ref = broker_id]]
                 /\ UNCHANGED res
    /\ UNCHANGED db
    /\ StreamIdle

\* register_topic from add() to commit(): the INSERT and its commit, or the
\* DBIntegrityError of the INSERT and the rollback
TopicRegisterCommit(w) ==
    /\ txns[w].pc = "found"
    /\ \E schema \in Schemas :
        \E id \in FreshIds(db.topics \cup Pending("topics"), MaxTopicId) :
            LET t == txns[w]
                topic_details == [id |-> id, topic_name |-> t.name,
                                  topic_schema |-> schema, broker_id |-> t.ref]
                r == add_and_flush(db, NoChanges, "topics", topic_details)
                seen == visible(r.db, r.changes)
            IN  IF unique_topic_per_broker(seen.topics) /\ references(seen)
                THEN /\ id <= MaxTopicId
                     /\ db' = seen
                     /\ txns' = [txns EXCEPT ![w] =
                            [t EXCEPT !.pc = "committed", !.id = id,
                                      !.changes = r.changes]]
                     /\ UNCHANGED res
                ELSE /\ db' = r.db
                     /\ txns' = [txns EXCEPT ![w] = [t EXCEPT !.pc = "conflict"]]
                     /\ UNCHANGED res
    /\ StreamIdle

\* register_topic after its commit: the commit expired topic_details, so
\* TopicResponse.from_orm reads the row again; when another session has
\* deleted it by then the read raises ObjectDeletedError (rollback,
\* re-raised: 500)
TopicRegisterReload ==
    \E w \in Callers :
        /\ txns[w].pc = "committed"
        /\ txns[w].op = "register_topic"
        /\ LET t == txns[w]
               topic_details == one({tp \in db.topics : tp.id = t.id})
           IN  res' = IF topic_details.found = "Row"
                      THEN Response(t.op, t.name, t.ref, 0, "Ok", t.id)
                      ELSE Response(t.op, t.name, t.ref, 0, "DatabaseError", 0)
        /\ txns' = [txns EXCEPT ![w] = IdleTxn]
        /\ UNCHANGED db
        /\ StreamIdle

\* register_topic in its except clause: the lookup of the existing topic
TopicRegisterExisting(w) ==
    /\ txns[w].pc = "conflict"
    /\ txns[w].op = "register_topic"
    /\ LET t == txns[w]
           existing_topic == one({tp \in db.topics : tp.topic_name = t.name})
       IN  res' = IF existing_topic.found = "Row"
                  THEN Response(t.op, t.name, t.ref, 0, "Conflict",
                                existing_topic.row.id)
                  ELSE Response(t.op, t.name, t.ref, 0, existing_topic.found, 0)
    /\ txns' = [txns EXCEPT ![w] = IdleTxn]
    /\ UNCHANGED db
    /\ StreamIdle

RaceBrokerRegisterCommit == \E w \in Callers : BrokerRegisterCommit(w)
RaceBrokerRegisterExisting == \E w \in Callers : BrokerRegisterExisting(w)
RaceBrokerDeregisterDelete == \E w \in Callers : BrokerDeregisterDelete(w)
RaceBrokerDeregisterCommit == \E w \in Callers : BrokerDeregisterCommit(w)
RaceTopicRegisterLookup == \E w \in Callers : TopicRegisterLookup(w, {"telemetry"})
RaceTopicRegisterCommit == \E w \in Callers : TopicRegisterCommit(w)
RaceTopicRegisterExisting == \E w \in Callers : TopicRegisterExisting(w)

\* Registrations and deregistrations of brokers by concurrent workers, from an
\* empty store on
NextBrokerRace ==
    \/ RaceBrokerRegisterCommit
    \/ BrokerRegisterReload
    \/ RaceBrokerRegisterExisting
    \/ RaceBrokerDeregisterDelete
    \/ RaceBrokerDeregisterCommit

SpecBrokerRace == Init /\ [][NextBrokerRace]_vars

\* The registry the topic registrations race on: two brokers without topics
RaceRegistry ==
    register_broker(register_broker(EmptyDb, "broker-1", "127.0.0.1", 9092, 1).db,
                    "broker-2", "127.0.0.1", 9092, 2).db

InitTopicRace ==
    /\ db = RaceRegistry
    /\ res = NoCall
    /\ calls = NoCalls
    /\ consumers = {}
    /\ txns = NoTxns

\* Registrations of topics and deregistrations of brokers by concurrent workers
NextTopicRace ==
    \/ RaceTopicRegisterLookup
    \/ RaceTopicRegisterCommit
    \/ TopicRegisterReload
    \/ RaceTopicRegisterExisting
    \/ RaceBrokerDeregisterDelete
    \/ RaceBrokerDeregisterCommit

SpecTopicRace == InitTopicRace /\ [][NextTopicRace]_vars

----------------------------------------------------------------------------
(* fetch_dataset_topic_data as steps of its callers *)

MetadataIdle == UNCHANGED <<db, res, txns>>

\* The registry the stream reader works on: dataset 1 is linked to topic 1 of
\* broker 1; dataset 2 lost its link when its topic was deregistered.
StreamRegistry ==
    LET d1 == register_dataset_message_details(
                  LinkerRegistry, "sensor-ds", 1, 1, 1, 1, "none").db
        d2 == register_dataset_message_details(
                  d1, "sensor-ds", 2, 2, 2, 2, "none").db
    IN  topic_deregister(d2, 2).db

InitStream ==
    /\ db = StreamRegistry
    /\ res = NoCall
    /\ calls = NoCalls
    /\ consumers = {}
    /\ txns = NoTxns

\* The endpoint is called: GET /datasets/{id}/topic/data
FetchDatasetTopicData(c, requested, offsets) ==
    /\ calls[c].pc \in {"idle", "done"}
    /\ \E dataset_id \in DatasetIds, no_of_records \in requested,
          offset_reset \in offsets :
            calls' = [calls EXCEPT ![c] =
                        [IdleCall EXCEPT !.pc = "resolve",
                                         !.dataset_id = dataset_id,
                                         !.no_of_records = no_of_records,
                                         !.offset_reset = offset_reset]]
    /\ UNCHANGED consumers
    /\ MetadataIdle

\* RESOLVE: topic_details = self._get_topic_and_broker_details(dataset_id)
Resolve(c) ==
    /\ calls[c].pc = "resolve"
    /\ LET r == get_topic_and_broker_details(db, calls[c].dataset_id)
       IN  calls' = [calls EXCEPT ![c] =
                IF r.raised = ""
                THEN [@ EXCEPT !.pc = "connect", !.details = r.details]
                ELSE [@ EXCEPT !.pc = "respond",
                               !.raised = fetch_dataset_topic_data_raises(r.raised)]]
    /\ UNCHANGED consumers
    /\ MetadataIdle

\* CONNECT: consumer = KafkaConsumer(topic_name, bootstrap_servers=...), which
\* raises when the broker cannot be reached
Connect(c) ==
    /\ calls[c].pc = "connect"
    /\ \E reachable \in BOOLEAN :
        IF reachable
        THEN /\ calls' = [calls EXCEPT ![c] =
                    [@ EXCEPT !.pc = "poll", !.connects = @ + 1, !.opened = @ + 1]]
             /\ consumers' = consumers \cup {c}
        ELSE /\ calls' = [calls EXCEPT ![c] =
                    [@ EXCEPT !.pc = "respond", !.connects = @ + 1,
                              !.raised = fetch_dataset_topic_data_raises("Transport")]]
             /\ UNCHANGED consumers
    /\ MetadataIdle

\* The poll blocks: no record has been fetched and the timeout has not passed
Wait(c) ==
    /\ calls[c].pc = "poll"
    /\ calls[c].waited < STREAM_TIMEOUT
    /\ calls' = [calls EXCEPT ![c] = [@ EXCEPT !.waited = STREAM_TIMEOUT]]
    /\ UNCHANGED consumers
    /\ MetadataIdle

\* POLL: messages = consumer.poll(timeout_ms=STREAM_TIMEOUT, max_records=no_of_records)
\* and the decision on its result; a message that does not decode, or a broker
\* that is lost, makes the poll raise.
Poll(c, counts, faults) ==
    /\ calls[c].pc = "poll"
    /\ \E fetched \in [Partitions -> counts], order \in PartitionOrders,
          fault \in faults :
        /\ fault = "Decode" => \E tp \in Partitions : fetched[tp] > 0
        /\ poll_returns(fetched, fault, calls[c].waited, STREAM_TIMEOUT)
        /\ LET polled == poll(fetched, order, fault, calls[c].no_of_records)
           IN  calls' = [calls EXCEPT ![c] =
                    [@ EXCEPT !.pc = "close", !.polls = @ + 1,
                              !.fault = fault, !.polled = polled,
                              !.result = fetch_stream_data(polled)]]
    /\ UNCHANGED consumers
    /\ MetadataIdle

\* CLOSE: the finally clause, consumer.close(); then __fetch_stream_data returns
\* or raises, and fetch_dataset_topic_data builds its result or raises
Close(c) ==
    /\ calls[c].pc = "close"
    /\ LET r == calls[c].result
       IN  /\ calls' = [calls EXCEPT ![c] =
                [@ EXCEPT !.pc = "respond",
                          !.closed = IF r.close THEN @ + 1 ELSE @,
                          !.raised = fetch_dataset_topic_data_raises(r.raised),
                          !.data = IF r.raised = ""
                                   THEN DatasetTopicData(
                                            calls[c].dataset_id, r.records,
                                            calls[c].polled,
                                            calls[c].details.topic_name)
                                   ELSE NoData]]
           /\ consumers' = IF r.close THEN consumers \ {c} ELSE consumers
    /\ MetadataIdle

\* The endpoint answers: 200 with the data, or the HTTPException of the error
Respond(c) ==
    /\ calls[c].pc = "respond"
    /\ calls' = [calls EXCEPT ![c] =
            [@ EXCEPT !.pc = "done",
                      !.status = fetch_datasets_topic_data_status(calls[c].raised)]]
    /\ UNCHANGED consumers
    /\ MetadataIdle

\* What a poll window can deliver per partition: nothing, a few messages,
\* and counts around DEFAULT_STREAM_DATA_COUNT and MAX_POLL_RECORDS
WindowCounts ==
    {0, 1, MaxRequested, MaxRequested + 1, DEFAULT_STREAM_DATA_COUNT,
     DEFAULT_STREAM_DATA_COUNT + 1, MAX_POLL_RECORDS, MAX_POLL_RECORDS + 1}

Requested == {None} \cup (1..MaxRequested)

\* How a poll can fail: the broker is lost, or a message does not decode
PollFaults == {"none", "Transport", "Decode"}

\* One caller, every request and every window
StreamFetch == FetchDatasetTopicData(1, Requested, OffsetReset)
StreamResolve == Resolve(1)
StreamConnect == Connect(1)
StreamWait == Wait(1)
StreamPoll == Poll(1, WindowCounts, PollFaults)
\* the poll returning empty-handed at its timeout
StreamPollTimeout == Poll(1, {0}, {"none"})
StreamClose == Close(1)
StreamRespond == Respond(1)

NextStream ==
    \/ StreamFetch
    \/ StreamResolve
    \/ StreamConnect
    \/ StreamWait
    \/ StreamPoll
    \/ StreamClose
    \/ StreamRespond

SpecStream == InitStream /\ [][NextStream]_vars

\* The steps of a call are taken by its thread, and the poll returns at its
\* timeout; that records arrive, or that an error strikes, is never assumed
FairStream ==
    /\ SpecStream
    /\ WF_vars(StreamResolve)
    /\ WF_vars(StreamConnect)
    /\ WF_vars(StreamWait)
    /\ WF_vars(StreamPollTimeout)
    /\ WF_vars(StreamClose)
    /\ WF_vars(StreamRespond)

\* Concurrent callers, small requests and windows
SessionsFetch == \E c \in Callers : FetchDatasetTopicData(c, {None}, {"latest"})
SessionsResolve == \E c \in Callers : Resolve(c)
SessionsConnect == \E c \in Callers : Connect(c)
SessionsWait == \E c \in Callers : Wait(c)
SessionsPoll == \E c \in Callers : Poll(c, {0, 1}, PollFaults)
SessionsClose == \E c \in Callers : Close(c)
SessionsRespond == \E c \in Callers : Respond(c)

NextSessions ==
    \/ SessionsFetch
    \/ SessionsResolve
    \/ SessionsConnect
    \/ SessionsWait
    \/ SessionsPoll
    \/ SessionsClose
    \/ SessionsRespond

SpecSessions == InitStream /\ [][NextSessions]_vars

----------------------------------------------------------------------------
(* Claims on the broker registry and the topic registry (SpecRegistry) *)

BrokersNamed(d, name) == {b \in d.brokers : b.broker_name = name}

\* A text in the syntax of an IPv4 literal (four decimal octets) or of an IPv6
\* literal (eight hextets)
AddressLiteral(ip) ==
    /\ ip.form = "text"
    /\ \/ /\ ip.sep = "." /\ Len(ip.groups) = 4
          /\ \A i \in 1..4 : ip.groups[i] >= 0 /\ ip.groups[i] <= 255
       \/ /\ ip.sep = ":" /\ Len(ip.groups) = 8
          /\ \A i \in 1..8 : ip.groups[i] >= 0 /\ ip.groups[i] <= 65535

\* The body <<address, port>> of a broker request is valid
ValidBrokerRequest(args) == AddressLiteral(args[1]) /\ args[2] > 0

TopicsNamed(d, name, broker_id) ==
    {t \in d.topics : t.topic_name = name /\ t.broker_id = broker_id}

\* C1: register_broker stores one new broker row when no broker has the name;
\* when a broker has the name it fails with a Conflict carrying that broker's
\* id and leaves every row as it was.
C1_RegisterBrokerOncePerName ==
    [][(res'.op = "register_broker" /\ ValidBrokerRequest(res'.args)) =>
        IF BrokersNamed(db, res'.name) = {}
        THEN /\ res'.kind = "Ok"
             /\ \E b \in db'.brokers :
                    /\ b.id = res'.id
                    /\ b.broker_name = res'.name
                    /\ b \notin db.brokers
                    /\ db'.brokers = db.brokers \cup {b}
        ELSE /\ res'.kind = "Conflict"
             /\ \E b \in BrokersNamed(db, res'.name) : b.id = res'.id
             /\ db' = db]_vars

\* C1 witness: a second registration of a name was refused with the id of the
\* broker that holds the name, next to another broker
C1_Witness ==
    /\ res.op = "register_broker"
    /\ res.kind = "Conflict"
    /\ \E b \in db.brokers : b.id = res.id /\ b.broker_name = res.name
    /\ Cardinality(db.brokers) > 1

\* C2: register_topic fails with a Conflict carrying the id of the topic that
\* has the same (name, broker_id) whenever that pair is registered, also when
\* the name is registered under other brokers, and adds no topic row.
C2_RegisterTopicConflictCarriesExistingId ==
    [][(/\ res'.op = "register_topic"
        /\ TopicsNamed(db, res'.name, res'.ref) # {}) =>
            /\ res'.kind = "Conflict"
            /\ \E t \in TopicsNamed(db, res'.name, res'.ref) : t.id = res'.id
            /\ db'.topics = db.topics]_vars
----------------------------------------------------------------------------
(* Claims on the dataset-topic linker (SpecLinker) *)

BrokerDatasets(d, dataset_id) ==
    {ds \in d.datasets :
        ds.id = dataset_id /\ ds.data_source_type = BROKER_DATA_SOURCE_TYPE}

LinksOf(d, dataset_id) == {l \in d.links : l.dataset_id = dataset_id}

\* C3: with a broker_id and a topic_id that exist, register_dataset_message_details
\* either commits one new broker-sourced Dataset row together with one new Link
\* row for that dataset and topic_id, or fails and leaves neither.
C3_RegisterDatasetAndLinkTogether ==
    [][(/\ res'.op = "register_dataset_message_details"
        /\ \E b \in db.brokers : b.id = res'.ref
        /\ \E t \in db.topics : t.id = res'.ref2) =>
            \/ /\ res'.kind = "Ok"
               /\ \E ds \in db'.datasets, l \in db'.links :
                    /\ ds \notin db.datasets /\ l \notin db.links
                    /\ ds.id = res'.id
                    /\ ds.data_source_type = BROKER_DATA_SOURCE_TYPE
                    /\ l.dataset_id = ds.id /\ l.topic_id = res'.ref2
                    /\ db'.datasets = db.datasets \cup {ds}
                    /\ db'.links = db.links \cup {l}
            \/ /\ res'.kind = "DatabaseError"
               /\ db' = db]_vars

\* C3 witness: a registration committed its dataset and the link to its topic
C3_Witness ==
    /\ res.op = "register_dataset_message_details"
    /\ res.kind = "Ok"
    /\ BrokerDatasets(db, res.id) # {}
    /\ \E l \in LinksOf(db, res.id) : l.topic_id = res.ref2

----------------------------------------------------------------------------
(* Claims on the stream reader (SpecSessions: concurrent callers; SpecStream:
   one caller, every request and window) *)

Returned(c) == calls[c].pc \in {"respond", "done"}

RECURSIVE PolledCount(_)
PolledCount(messages) ==
    IF messages = <<>> THEN 0
    ELSE Head(messages).count + PolledCount(Tail(messages))

\* The chain dataset -> link -> topic -> broker exists for the dataset id
Resolvable(d, dataset_id) ==
    \E l \in d.links, t \in d.topics, b \in d.brokers :
        l.dataset_id = dataset_id /\ t.id = l.topic_id /\ b.id = t.broker_id

\* C5: a call opens at most one consumer session, only its own call uses it,
\* and the session is closed exactly once before the call returns, whether the
\* poll delivered, timed out or raised; with no call in progress no session is open.
C5_ConsumerClosedOnEveryExit ==
    /\ \A c \in Callers :
        /\ calls[c].opened <= 1
        /\ calls[c].closed <= calls[c].opened
        /\ Returned(c) => (calls[c].closed = calls[c].opened /\ c \notin consumers)
        /\ c \in consumers <=> (calls[c].opened = 1 /\ calls[c].closed = 0)
        /\ c \in consumers => calls[c].pc \in {"poll", "close"}
    /\ (\A c \in Callers : calls[c].pc \in {"idle", "done"}) => consumers = {}

\* C5 witness: a call whose poll raised has returned with its session closed
\* once while another call is polling on a session of its own
C5_Witness ==
    \E c1, c2 \in Callers :
        /\ calls[c1].pc = "done"
        /\ calls[c1].raised \in {"Decode", "Transport"}
        /\ calls[c1].opened = 1 /\ calls[c1].closed = 1
        /\ calls[c2].pc = "poll" /\ consumers = {c2}

\* C6: a successful fetch with a requested max_records returns record_count
\* equal to the number of records, which is the number of messages polled and
\* is at most max_records, however the messages spread over the partitions.
C6_RecordCountWithinRequested ==
    \A c \in Callers :
        (Returned(c) /\ calls[c].raised = "" /\ calls[c].no_of_records # None) =>
            /\ calls[c].data.record_count = Len(calls[c].data.records)
            /\ Len(calls[c].data.records) = PolledCount(calls[c].polled.messages)
            /\ Len(calls[c].data.records) <= calls[c].no_of_records

\* C6 witness: a fetch returned exactly the requested number of records, taken
\* from two partitions
C6_Witness ==
    \E c \in Callers :
        /\ calls[c].pc = "done" /\ calls[c].raised = ""
        /\ calls[c].no_of_records = MaxRequested
        /\ calls[c].data.record_count = MaxRequested
        /\ Len(calls[c].polled.messages) > 1

\* C7: a fetch that does not carry no_of_records returns at most
\* DEFAULT_STREAM_DATA_COUNT (200) records.
C7_DefaultCountWhenUnspecified ==
    \A c \in Callers :
        (Returned(c) /\ calls[c].raised = "" /\ calls[c].no_of_records = None) =>
            calls[c].data.record_count <= DEFAULT_STREAM_DATA_COUNT

\* C8: after a poll that returned, the fetch succeeds exactly when the poll
\* held at least one record and raises NoMessagesFound exactly when it held
\* none; a success carries at least one record.
C8_DeliverOrNoMessagesFound ==
    \A c \in Callers :
        (Returned(c) /\ calls[c].polls = 1 /\ calls[c].polled.raised = "") =>
            /\ calls[c].raised = "" <=> PolledCount(calls[c].polled.messages) >= 1
            /\ calls[c].raised = "NoMessagesFound"
                    <=> PolledCount(calls[c].polled.messages) = 0
            /\ calls[c].raised = "" => calls[c].data.record_count >= 1

\* C8 witness: a poll of a resolved, reachable topic returned nothing and the
\* fetch ended in NoMessagesFound
C8_Witness ==
    \E c \in Callers :
        /\ calls[c].pc = "done"
        /\ calls[c].polls = 1 /\ calls[c].polled = NoPoll
        /\ calls[c].raised = "NoMessagesFound"

FailureKinds == {"NoResultFound", "NoMessagesFound", "Transport"}

\* C9: NotFound, NoMessagesFound and Transport failures of the fetch are
\* answered with response kinds that differ from each other.
C9_FailureKindsDistinguishable ==
    \A c1, c2 \in Callers :
        (/\ calls[c1].pc = "done" /\ calls[c2].pc = "done"
         /\ calls[c1].raised \in FailureKinds /\ calls[c2].raised \in FailureKinds
         /\ calls[c1].raised # calls[c2].raised) =>
            calls[c1].status # calls[c2].status

\* C10: a fetch connects only after it resolved its dataset and polls only on
\* the session it opened; for a dataset without link, topic or broker it fails
\* NotFound without ever connecting or polling.
C10_ResolveConnectPollOrder ==
    \A c \in Callers :
        /\ calls[c].connects > 0 =>
                (Resolvable(db, calls[c].dataset_id) /\ calls[c].details # NoDetails)
        /\ calls[c].polls > 0 => (calls[c].connects = 1 /\ calls[c].opened = 1)
        /\ calls[c].pc = "connect" => (calls[c].connects = 0 /\ calls[c].polls = 0)
        /\ calls[c].pc = "poll" => (calls[c].connects = 1 /\ calls[c].polls = 0)
        /\ (Returned(c) /\ ~Resolvable(db, calls[c].dataset_id)) =>
                /\ calls[c].raised = "NoResultFound"
                /\ calls[c].connects = 0 /\ calls[c].opened = 0
                /\ calls[c].polls = 0 /\ c \notin consumers
        /\ (calls[c].pc \notin {"idle", "resolve"}
                /\ ~Resolvable(db, calls[c].dataset_id)) => Returned(c)

\* C10 witness: the fetch for a broker dataset that lost its link has failed
\* NotFound without a connect, while another call got as far as its poll
C10_Witness ==
    \E c1, c2 \in Callers :
        /\ calls[c1].pc = "done" /\ calls[c1].raised = "NoResultFound"
        /\ BrokerDatasets(db, calls[c1].dataset_id) # {}
        /\ calls[c1].connects = 0
        /\ calls[c2].polls = 1

\* C11: a fetch makes at most one connect attempt and at most one poll; a
\* transport failure of the connect or of the poll ends the call, without a
\* further attempt, in an error that is neither NotFound nor NoMessagesFound.
C11_TransportFailureIsFatal ==
    \A c \in Callers :
        /\ calls[c].connects <= 1 /\ calls[c].polls <= 1
        /\ (calls[c].connects = 1 /\ calls[c].opened = 0) =>
                /\ Returned(c) /\ calls[c].polls = 0
                /\ calls[c].raised \notin {"", "NoResultFound", "NoMessagesFound"}
        /\ (Returned(c) /\ calls[c].polled.raised = "Transport") =>
                /\ calls[c].connects = 1 /\ calls[c].polls = 1
                /\ calls[c].raised \notin {"", "NoResultFound", "NoMessagesFound"}
                /\ calls[c].data = NoData

\* C11 witness: one call has ended on a failed connect and another on a poll
\* that lost its broker, each after a single attempt
C11_Witness ==
    \E c1, c2 \in Callers :
        /\ calls[c1].pc = "done" /\ calls[c1].connects = 1 /\ calls[c1].opened = 0
        /\ calls[c1].raised = "Transport"
        /\ calls[c2].pc = "done" /\ calls[c2].polled.raised = "Transport"
        /\ calls[c2].polls = 1 /\ calls[c2].raised = "Transport"
----------------------------------------------------------------------------
(* Further claims on the registries and the linker *)

\* C12: register_topic with a broker_id that no broker row has fails NotFound
\* and leaves every row, the topic rows among them, as it was.
C12_RegisterTopicNeedsBroker ==
    [][(/\ res'.op = "register_topic"
        /\ \A b \in db.brokers : b.id # res'.ref) =>
            /\ res'.kind = "NotFound"
            /\ db'.topics = db.topics
            /\ db' = db]_vars

\* C12 witness: a topic registration for a missing broker was refused while
\* another broker is registered and holds a topic of that name
C12_Witness ==
    /\ res.op = "register_topic"
    /\ res.kind = "NotFound"
    /\ \A b \in db.brokers : b.id # res.ref
    /\ \E t \in db.topics : t.topic_name = res.name
    /\ \A t \in db.topics : t.broker_id # res.ref

\* C13: register_dataset_message_details fails NotFound for the broker when
\* broker_id has no row, whatever topic_id is, and NotFound for the topic when
\* the broker exists but topic_id has no row; either way no row is created.
C13_RegisterMessageDetailsNeedsBrokerAndTopic ==
    [][res'.op = "register_dataset_message_details" =>
        /\ (\A b \in db.brokers : b.id # res'.ref) =>
                (res'.kind = "NotFoundBroker" /\ db' = db)
        /\ ((\E b \in db.brokers : b.id = res'.ref)
                /\ (\A t \in db.topics : t.id # res'.ref2)) =>
                (res'.kind = "NotFoundTopic" /\ db' = db)
        /\ res'.kind \in {"NotFoundBroker", "NotFoundTopic"} =>
                (db'.datasets = db.datasets /\ db'.links = db.links)]_vars

\* C13 witness: a registration naming a deregistered broker and a topic that
\* still exists was refused for its broker
C13_Witness ==
    /\ res.op = "register_dataset_message_details"
    /\ res.kind = "NotFoundBroker"
    /\ \A b \in db.brokers : b.id # res.ref
    /\ \E t \in db.topics : t.id = res.ref2

\* The dataset row and, from it, a link, the link's topic and the topic's broker
MessageChain(d, dataset_id) ==
    \E ds \in d.datasets, l \in d.links, t \in d.topics, b \in d.brokers :
        /\ ds.id = dataset_id /\ l.dataset_id = ds.id
        /\ t.id = l.topic_id /\ b.id = t.broker_id

\* C14: fetch_dataset_message_details succeeds only for a dataset_id whose
\* chain Dataset, Link, Topic, Broker is complete; when any hop is missing it
\* fails with the one NotFound error; it changes no row.
C14_FetchMessageDetailsNeedsWholeChain ==
    [][res'.op = "fetch_dataset_message_details" =>
        /\ db' = db
        /\ res'.kind = "Ok" => MessageChain(db, res'.ref)
        /\ ~MessageChain(db, res'.ref) => res'.kind = "NotFound"
        /\ res'.kind \in {"Ok", "NotFound"}]_vars

\* C14 witness: the details of a dataset that exists without a link were not
\* found while another dataset has its complete chain
C14_Witness ==
    /\ res.op = "fetch_dataset_message_details"
    /\ res.kind = "NotFound"
    /\ \E ds \in db.datasets : ds.id = res.ref
    /\ LinksOf(db, res.ref) = {}
    /\ \E ds \in db.datasets : MessageChain(db, ds.id)

\* C15: topic_deregister fails NotFound and deletes nothing when no topic has
\* the id; when it succeeds, the topic row is gone together with every link of
\* that topic, and nothing else is deleted.
C15_TopicDeregisterCascadesToLinks ==
    [][res'.op = "topic_deregister" =>
        IF \A t \in db.topics : t.id # res'.ref
        THEN res'.kind = "NotFound" /\ db' = db
        ELSE /\ res'.kind = "Ok"
             /\ db'.topics = {t \in db.topics : t.id # res'.ref}
             /\ \A l \in db'.links : l.topic_id # res'.ref
             /\ db'.links = {l \in db.links : l.topic_id # res'.ref}
             /\ db'.brokers = db.brokers /\ db'.datasets = db.datasets]_vars

\* C15 witness: a topic was deregistered and took its link along: a broker
\* dataset is left without a link while another topic keeps its link
C15_Witness ==
    /\ res.op = "topic_deregister"
    /\ res.kind = "Ok"
    /\ \A t \in db.topics : t.id # res.ref
    /\ \E ds \in db.datasets :
            /\ ds.data_source_type = BROKER_DATA_SOURCE_TYPE
            /\ LinksOf(db, ds.id) = {}
    /\ db.links # {}

\* C16: broker_deregister fails NotFound and deletes nothing when no broker
\* has the id; when it succeeds, the broker row is gone together with every
\* topic of that broker, and the other brokers and their topics are unchanged.
C16_BrokerDeregisterCascadesToTopics ==
    [][res'.op = "broker_deregister" =>
        IF \A b \in db.brokers : b.id # res'.ref
        THEN res'.kind = "NotFound" /\ db' = db
        ELSE /\ res'.kind = "Ok"
             /\ db'.brokers = {b \in db.brokers : b.id # res'.ref}
             /\ \A t \in db'.topics : t.broker_id # res'.ref
             /\ db'.topics = {t \in db.topics : t.broker_id # res'.ref}]_vars

\* C16 witness: a broker was deregistered with its topics while another broker
\* keeps a topic
C16_Witness ==
    /\ res.op = "broker_deregister"
    /\ res.kind = "Ok"
    /\ \A b \in db.brokers : b.id # res.ref
    /\ \A t \in db.topics : t.broker_id # res.ref
    /\ \E b \in db.brokers, t \in db.topics : t.broker_id = b.id

\* C17: register_broker with a port that is not positive, or with an address
\* that is not an IPv4 or IPv6 literal, fails Validation and stores no broker row.
C17_RegisterBrokerValidatesRequest ==
    [][(res'.op = "register_broker" /\ ~ValidBrokerRequest(res'.args)) =>
            (res'.kind = "Validation" /\ db' = db)]_vars

\* C18: update_broker and update_topic fail NotFound and change nothing when
\* no row has the id; a successful update rewrites the addressed row only, and
\* in it only the supplied fields: its other fields, its id, a topic's
\* broker_id, the other rows of the table and every row of the other tables
\* (datasets and links among them) keep their values.
C18_UpdateChangesSuppliedFieldsOnly ==
    [][res'.op \in {"update_broker", "update_topic"} =>
        LET table == IF res'.op = "update_broker" THEN "brokers" ELSE "topics"
            patch == res'.args[1]
            rows == {r \in db[table] : r.id = res'.ref}
        IN  /\ \A other \in {"brokers", "topics", "datasets", "links"} \ {table} :
                    db'[other] = db[other]
            /\ rows = {} => (res'.kind = "NotFound" /\ db' = db)
            /\ res'.kind # "Ok" => db' = db
            /\ res'.kind = "Ok" =>
                    \E old \in rows, new \in db'[table] :
                        /\ db'[table] = (db[table] \ {old}) \cup {new}
                        /\ DOMAIN new = DOMAIN old
                        /\ new.id = old.id
                        /\ \A key \in DOMAIN old \ DOMAIN patch : new[key] = old[key]
                        /\ \A key \in DOMAIN patch \ {"broker_ip"} :
                                new[key] = patch[key]
                        /\ "broker_ip" \in DOMAIN patch =>
                                new.broker_ip = "::1"]_vars

\* C18 witness: an update that supplied the port alone gave its broker the new
\* port and left the broker's name and address, the other broker, and the
\* topics and links as they were registered
C18_Witness ==
    /\ res.op = "update_broker"
    /\ res.kind = "Ok"
    /\ DOMAIN res.args[1] = {"broker_port"}
    /\ \E b \in db.brokers :
            /\ b.id = res.ref /\ b.broker_port = 9093
            /\ b.broker_ip = "127.0.0.1"
            /\ b.broker_name \in BrokerNames
    /\ \E b \in db.brokers : b.id # res.ref /\ b.broker_port = 9092
    /\ db.topics = UpdateRegistry.topics
    /\ db.links = UpdateRegistry.links /\ db.links # {}

\* C19: fetch_broker_details fails NotFound exactly when no broker is
\* registered and otherwise returns every broker row; fetch_topic_details does
\* the same for the topics; neither changes a row.
C19_ListFailsOnlyOnEmptyRegistry ==
    [][/\ res'.op = "fetch_broker_details" =>
            /\ db' = db
            /\ res'.kind = "NotFound" <=> db.brokers = {}
            /\ db.brokers # {} => (res'.kind = "Ok" /\ res'.args[1] = db.brokers)
       /\ res'.op = "fetch_topic_details" =>
            /\ db' = db
            /\ res'.kind = "NotFound" <=> db.topics = {}
            /\ db.topics # {} => (res'.kind = "Ok" /\ res'.args[1] = db.topics)]_vars

\* C19 witness: the topic list was not found, the topic registry being empty,
\* while brokers are registered
C19_Witness ==
    /\ res.op = "fetch_topic_details"
    /\ res.kind = "NotFound"
    /\ db.topics = {}
    /\ Cardinality(db.brokers) > 1

\* C20: a fetch polls once and the poll blocks for at most STREAM_TIMEOUT; a
\* call that has reached its connect step gets, whatever the broker and the
\* topic do, to the close of the session it opened and to its return with a
\* result or an error.
C20_FetchTerminates ==
    /\ [](\A c \in Callers :
            calls[c].polls <= 1 /\ calls[c].waited <= STREAM_TIMEOUT)
    /\ \A c \in Callers :
            (calls[c].pc = "connect") ~>
                (/\ calls[c].pc = "done"
                 /\ calls[c].closed = calls[c].opened
                 /\ calls[c].status \in {HTTP_200_OK, HTTP_404_NOT_FOUND,
                                         HTTP_500_INTERNAL_SERVER_ERROR})

\* C20 witness: a call that polled an empty topic until the timeout has closed
\* its session and returned NoMessagesFound
C20_Witness ==
    \E c \in Callers :
        /\ calls[c].pc = "done"
        /\ calls[c].waited = STREAM_TIMEOUT
        /\ calls[c].polls = 1 /\ calls[c].polled = NoPoll
        /\ calls[c].closed = 1
        /\ calls[c].raised = "NoMessagesFound"
----------------------------------------------------------------------------
(* Further claims on the stream reader *)

\* C21: when a message of the polled batch does not decode, the fetch ends in
\* an error for the whole request and hands out no record, never the rest of
\* the batch, and the consumer session is closed all the same.
C21_DecodeFailureIsFailFast ==
    \A c \in Callers :
        (calls[c].polls = 1 /\ calls[c].fault = "Decode") =>
            /\ calls[c].result.raised = "Decode"
            /\ calls[c].result.records = <<>>
            /\ Returned(c) =>
                    /\ calls[c].raised \notin {"", "NoResultFound", "NoMessagesFound"}
                    /\ calls[c].data = NoData
                    /\ calls[c].closed = 1 /\ calls[c].opened = 1
                    /\ c \notin consumers
            /\ calls[c].pc = "done" =>
                    calls[c].status = HTTP_500_INTERNAL_SERVER_ERROR

\* C21 witness: a call whose batch held a message that does not decode has
\* returned an error and no data, its session closed
C21_Witness ==
    \E c \in Callers :
        /\ calls[c].pc = "done"
        /\ calls[c].polls = 1 /\ calls[c].fault = "Decode"
        /\ calls[c].raised = "Decode"
        /\ calls[c].data = NoData
        /\ calls[c].closed = 1 /\ consumers = {}
        /\ calls[c].status = HTTP_500_INTERNAL_SERVER_ERROR
----------------------------------------------------------------------------
(* Claims on the whole metadata store (SpecStore) *)

\* C22: after any sequence of registrations, updates and deletions, every link
\* row references a dataset row that exists and a topic row that exists.
C22_LinkNeverOutlivesDatasetOrTopic ==
    \A l \in db.links :
        /\ \E ds \in db.datasets : ds.id = l.dataset_id
        /\ \E t \in db.topics : t.id = l.topic_id

\* C22 witness: the generic deregistration removed a dataset, no link refers
\* to it, and the link of another dataset is left with its dataset and topic
C22_Witness ==
    /\ res.op = "deregister_dataset"
    /\ res.kind = "Ok"
    /\ \A ds \in db.datasets : ds.id # res.ref
    /\ LinksOf(db, res.ref) = {}
    /\ \E l \in db.links, ds \in db.datasets, t \in db.topics :
            ds.id = l.dataset_id /\ t.id = l.topic_id
    /\ Cardinality(db.topics) = 1
----------------------------------------------------------------------------
(* Claims on concurrent metadata calls *)

\* C23: whatever registrations and deregistrations of broker-sourced datasets
\* are in progress, what is committed, which is what a reader reads, holds
\* every broker-sourced dataset together with its link and every link together
\* with its dataset; fetch_dataset_message_details and the resolve step of
\* fetch_dataset_topic_data succeed for exactly these datasets.
C23_DatasetAndLinkVisibleTogether ==
    /\ [](/\ \A ds \in db.datasets :
                ds.data_source_type = BROKER_DATA_SOURCE_TYPE =>
                    Cardinality(LinksOf(db, ds.id)) = 1
          /\ \A l \in db.links : BrokerDatasets(db, l.dataset_id) # {}
          /\ \A dataset_id \in DatasetIds :
                /\ fetch_dataset_message_details(db, dataset_id).kind = "Ok"
                        <=> BrokerDatasets(db, dataset_id) # {}
                /\ get_topic_and_broker_details(db, dataset_id).raised = ""
                        <=> BrokerDatasets(db, dataset_id) # {})
    /\ [][(res' # res /\ res'.op = "fetch_dataset_message_details") =>
            (res'.kind = "Ok" <=> BrokerDatasets(db, res'.ref) # {})]_vars

\* C23 witness: a reader found a committed dataset with its link while one
\* worker stands between the flush of a dataset row and its commit and
\* another between the deletes of a dataset and its link and their commit
C23_Witness ==
    /\ res.op = "fetch_dataset_message_details"
    /\ res.kind = "Ok"
    /\ \E w1, w2 \in Callers :
            /\ txns[w1].pc = "flushed"
            /\ txns[w1].changes.added.datasets # {}
            /\ txns[w2].pc = "deleted"
            /\ txns[w2].ref = res.ref
            /\ txns[w2].changes.deleted.links # {}
----------------------------------------------------------------------------
(* Further claims on the dataset-topic linker (SpecLinker) *)

\* C24: a successful register_dataset_message_details returns a broker that
\* owns the topic it returns, and fetch_dataset_message_details on the new
\* dataset, with no write in between, returns the same dataset, broker and topic.
C24_RegisterReturnsWhatFetchReturns ==
    [][(res'.op = "register_dataset_message_details" /\ res'.kind = "Ok") =>
        LET view == res'.args[1]
            fetched == fetch_dataset_message_details(db', res'.id)
        IN  /\ view.topic_details.broker_id = view.broker_details.id
            /\ fetched.kind = "Ok"
            /\ fetched.args = <<view>>]_vars
----------------------------------------------------------------------------
(* Claims on the registries under renames (SpecCatalog) *)

\* C25: whatever brokers and topics are registered, updated and deregistered,
\* no two broker rows have the same name and no two topic rows the same
\* (topic name, broker_id); an update that would give a row the name of
\* another broker, or of another topic of its broker, fails with a Conflict
\* and leaves every row unchanged.
C25_NamesStayUnique ==
    /\ [](/\ \A a, b \in db.brokers : a.broker_name = b.broker_name => a = b
          /\ \A a, b \in db.topics :
                (a.topic_name = b.topic_name /\ a.broker_id = b.broker_id) => a = b)
    /\ [][(/\ res'.op = "update_broker"
           /\ "broker_name" \in DOMAIN res'.args[1]
           /\ \E a, b \in db.brokers :
                /\ a.id = res'.ref /\ b.id # a.id
                /\ b.broker_name = res'.args[1].broker_name) =>
                    (res'.kind = "Conflict" /\ db' = db)]_vars
    /\ [][(/\ res'.op = "update_topic"
           /\ "topic_name" \in DOMAIN res'.args[1]
           /\ \E a, b \in db.topics :
                /\ a.id = res'.ref /\ b.id # a.id
                /\ b.broker_id = a.broker_id
                /\ b.topic_name = res'.args[1].topic_name) =>
                    (res'.kind = "Conflict" /\ db' = db)]_vars

\* C25 witness: the rename of a topic to the name of another topic of its
\* broker was refused, while a topic of that name exists under another broker
C25_Witness ==
    /\ res.op = "update_topic"
    /\ res.kind = "Conflict"
    /\ \E a, b \in db.topics :
            /\ a.id = res.ref /\ b.id # a.id
            /\ b.broker_id = a.broker_id
            /\ b.topic_name = res.args[1].topic_name
            /\ a.topic_name # b.topic_name
    /\ Cardinality(db.brokers) = 2

\* C26: every topic row's broker_id is the id of exactly one broker row,
\* whatever registrations of topics and deregistrations of brokers are in
\* progress.
C26_TopicBelongsToOneBroker ==
    \A t \in db.topics :
        Cardinality({b \in db.brokers : b.id = t.broker_id}) = 1

\* C26 witness: a broker_deregister whose DELETE the store refused, because a
\* register_topic committed a topic under the broker after the cascade had
\* been loaded; the topic still has its broker
C26_Witness ==
    /\ res.op = "broker_deregister"
    /\ res.kind = "DatabaseError"
    /\ \E t \in db.topics : t.broker_id = res.ref
    /\ \E b \in db.brokers : b.id = res.ref
----------------------------------------------------------------------------
(* Claims on the links of a dataset (SpecDatasets) *)

\* C27: in every reachable state each dataset has at most one link row, so the
\* single-row lookups by dataset_id of fetch_dataset_message_details,
\* _get_topic_and_broker_details and dataset_message_deregister never find
\* more than one link.
C27_AtMostOneLinkPerDataset ==
    /\ \A ds \in db.datasets : Cardinality(LinksOf(db, ds.id)) <= 1
    /\ \A dataset_id \in DatasetIds :
        /\ fetch_dataset_message_details(db, dataset_id).kind
                # "MultipleResultsFound"
        /\ get_topic_and_broker_details(db, dataset_id).raised
                # "MultipleResultsFound"
        /\ dataset_message_deregister(db, dataset_id, "none").res.kind
                # "MultipleResultsFound"

\* C27 witness: a registration linked a new dataset; the store is full and
\* every dataset has its one link
C27_Witness ==
    /\ res.op = "register_dataset_message_details"
    /\ res.kind = "Ok"
    /\ Cardinality(db.datasets) = MaxDatasetId
    /\ \A ds \in db.datasets : Cardinality(LinksOf(db, ds.id)) = 1
----------------------------------------------------------------------------
(* Claims on deregistration next to updates on pool threads (SpecTableRace) *)

----------------------------------------------------------------------------
(* Claims on the resolve step against the linker's join (SpecResolve) *)

\* C28: in every reachable metadata state and for every dataset_id, the three
\* lookups of _get_topic_and_broker_details (link, topic, broker) succeed
\* exactly when the join of fetch_dataset_message_details succeeds, and then
\* both give the same topic name, broker address and broker port.
C28_ResolveAgreesWithJoin ==
    \A dataset_id \in DatasetIds :
        LET resolved == get_topic_and_broker_details(db, dataset_id)
            fetched == fetch_dataset_message_details(db, dataset_id)
        IN  /\ (resolved.raised = "") <=> (fetched.kind = "Ok")
            /\ resolved.raised = "" =>
                /\ resolved.details.topic_name
                       = fetched.args[1].topic_details.topic_name
                /\ resolved.details.broker_ip
                       = fetched.args[1].broker_details.broker_ip
                /\ resolved.details.broker_port
                       = fetched.args[1].broker_details.broker_port

\* C28 witness: one dataset resolves to a renamed topic on a broker whose port
\* was changed, while another dataset is still stored but lost its link with
\* its topic and resolves nowhere
C28_Witness ==
    \E resolving \in DatasetIds, unresolved \in DatasetIds :
        /\ get_topic_and_broker_details(db, resolving).raised = ""
        /\ get_topic_and_broker_details(db, resolving).details.topic_name = "metrics"
        /\ get_topic_and_broker_details(db, resolving).details.broker_port = 9093
        /\ \E b \in db.brokers : b.broker_port = 9092
        /\ \E ds \in db.datasets : ds.id = unresolved
        /\ get_topic_and_broker_details(db, unresolved).raised = "NoResultFound"
        /\ fetch_dataset_message_details(db, unresolved).kind = "NotFound"
\* C29: the link is optional for deregistration. topic_deregister and
\* broker_deregister leave every dataset row in place; on a broker-sourced
\* dataset that lost its link, fetch_dataset_message_details and
\* fetch_dataset_topic_data fail as not found and dataset_message_deregister
\* succeeds and removes the dataset row; a dataset_message_deregister removes
\* the dataset and its link, if it has one, in one commit, and nothing when
\* it fails; when the dataset has a link, the session marks the link deleted
\* before the dataset, and marks nothing else.
C29_LinkIsOptionalForDeregistration ==
    /\ [](\A ds \in db.datasets :
            (ds.data_source_type = BROKER_DATA_SOURCE_TYPE
                /\ LinksOf(db, ds.id) = {}) =>
                LET r == dataset_message_deregister(db, ds.id, "none")
                IN  /\ fetch_dataset_message_details(db, ds.id).kind = "NotFound"
                    /\ fetch_dataset_topic_data_raises(
                           get_topic_and_broker_details(db, ds.id).raised)
                           = "NoResultFound"
                    /\ fetch_datasets_topic_data_status(
                           get_topic_and_broker_details(db, ds.id).raised)
                           = HTTP_404_NOT_FOUND
                    /\ r.res.kind = "Ok"
                    /\ r.db.datasets = db.datasets \ {ds}
                    /\ r.db.links = db.links)
    /\ [][res'.op \in {"topic_deregister", "broker_deregister"} =>
            db'.datasets = db.datasets]_vars
    /\ [][res'.op = "dataset_message_deregister" =>
            IF res'.kind = "Ok"
            THEN /\ \E ds \in db.datasets : ds.id = res'.ref
                 /\ db'.datasets = {ds \in db.datasets : ds.id # res'.ref}
                 /\ db'.links = db.links \ LinksOf(db, res'.ref)
                 /\ db'.topics = db.topics
                 /\ db'.brokers = db.brokers
                 /\ dataset_message_deregister(db, res'.ref, "none").deleted
                        = IF LinksOf(db, res'.ref) = {}
                          THEN <<[table |-> "datasets", ids |-> {res'.ref}]>>
                          ELSE <<[table |-> "links",
                                  ids |-> {l.id : l \in LinksOf(db, res'.ref)}],
                                 [table |-> "datasets", ids |-> {res'.ref}]>>
            ELSE db' = db]_vars

\* C29 witness: dataset_message_deregister succeeded on a dataset whose topic,
\* and with it the link, had been deregistered before; the dataset row is
\* gone, and another dataset still has its link
C29_Witness ==
    /\ res.op = "dataset_message_deregister"
    /\ res.kind = "Ok"
    /\ db.datasets # {}
    /\ \A ds \in db.datasets : ds.id # res.ref /\ LinksOf(db, ds.id) # {}
    /\ Cardinality(db.topics) = 1
    /\ Cardinality(db.links) = 1
----------------------------------------------------------------------------
(* Claims on concurrent registry calls (SpecBrokerRace) *)

\* C30: while register_broker calls for one name run concurrently with each
\* other and with broker_deregister calls, at most one broker row holds the
\* name, and a register_broker call that stores no row ends in a Conflict
\* that carries the id of a broker of that name, never in another kind of
\* error. (A call that stored its row ends in Ok, or in DatabaseError when
\* the row was deregistered before the call read it back.) Violated: the row
\* that made the INSERT fail can be deregistered before the except clause
\* looks it up, and the lookup's one() then raises NoResultFound.
C30_RegisterBrokerEndsInConflict ==
    /\ unique_broker_per_dataset(db.brokers)
    /\ res.op = "register_broker" =>
        \/ res.kind \in {"Ok", "DatabaseError"}
        \/ /\ res.kind = "Conflict"
           /\ res.id \in BrokerIds
====
